---- MODULE Spec2Model ----
(***************************************************************************)
(* SmartPad: the editor's find bar (FindBar), the formatters (Formatters)  *)
(* and the auto-format dispatch (TextEditor.auto_format).                  *)
(*                                                                         *)
(* Text is a sequence of one-character strings; offsets are 0-based as in  *)
(* the source, TLA+ sequence indices are offset + 1.                       *)
(***************************************************************************)
EXTENDS Integers, Sequences, FiniteSets, TLC

\* ------------------------------------------------------------------ bounds
MaxLen == 1          \* longest document the user builds by typing into an empty one
MaxQuery == 2        \* longest text typed into the find box
MaxDocLen == 3       \* longest document handed to count_matches alone
MaxPatLen == 2       \* longest query handed to count_matches alone
MaxFormatLen == 16   \* longest document on which auto_format is exercised
MaxInputLen == 2     \* longest generated content handed to a formatter alone

\* ------------------------------------------------------------- text helpers
Alphabet == {"a", "A", " "}       \* keys typed into the document
QueryAlphabet == {"a", "A"}       \* keys typed into the find box
SearchAlphabet == {"a", "A", "."} \* characters of the count_matches inputs

StrUpTo(S, n) == UNION {[1..k -> S] : k \in 0..n}

Min(a, b) == IF a < b THEN a ELSE b
Max(a, b) == IF a > b THEN a ELSE b

\* str.lower() on ASCII letters (also the case folding of re.IGNORECASE)
UpperCase == <<"A", "B", "C", "D", "E", "F", "G", "H", "I", "J", "K", "L", "M", "N", "O", "P", "Q", "R", "S", "T", "U", "V", "W", "X", "Y", "Z">>
LowerCase == <<"a", "b", "c", "d", "e", "f", "g", "h", "i", "j", "k", "l", "m", "n", "o", "p", "q", "r", "s", "t", "u", "v", "w", "x", "y", "z">>
Lower(c) ==
    IF \E k \in 1..26 : UpperCase[k] = c
    THEN LowerCase[CHOOSE k \in 1..26 : UpperCase[k] = c]
    ELSE c

\* ------------------------------------------------------- Python str helpers
IsSpace(c) == c \in {" ", "\n", "\t", "\r"}

RECURSIVE LStrip(_)
LStrip(s) == IF s # <<>> /\ IsSpace(s[1]) THEN LStrip(Tail(s)) ELSE s

RECURSIVE RStrip(_)
RStrip(s) ==
    IF s # <<>> /\ IsSpace(s[Len(s)]) THEN RStrip(SubSeq(s, 1, Len(s) - 1)) ELSE s

Strip(s) == RStrip(LStrip(s))

StartsWith(s, p) == Len(s) >= Len(p) /\ SubSeq(s, 1, Len(p)) = p
EndsWith(s, p) == Len(s) >= Len(p) /\ SubSeq(s, Len(s) - Len(p) + 1, Len(s)) = p

\* text[pos:].startswith(p), pos 0-based
StartsWithAt(s, pos, p) ==
    pos + Len(p) <= Len(s) /\ SubSeq(s, pos + 1, pos + Len(p)) = p

Contains(s, c) == \E k \in 1..Len(s) : s[k] = c

\* s.split(sep), sep one character
RECURSIVE Split(_, _)
Split(s, sep) ==
    IF ~Contains(s, sep) THEN <<s>>
    ELSE LET k == CHOOSE k \in 1..Len(s) :
                      s[k] = sep /\ \A j \in 1..(k - 1) : s[j] # sep
         IN  <<SubSeq(s, 1, k - 1)>> \o Split(SubSeq(s, k + 1, Len(s)), sep)

\* sep.join(lines), sep one character
RECURSIVE Join(_, _)
Join(lines, sep) ==
    IF lines = <<>> THEN <<>>
    ELSE IF Len(lines) = 1 THEN lines[1]
    ELSE lines[1] \o <<sep>> \o Join(Tail(lines), sep)

Spaces(n) == [k \in 1..n |-> " "]

\* ------------------------------------------------------ formatter results
\* a formatter returns (formatted, error); None is Python's None, an error
\* message is carried as a one-element tuple holding the message
None == <<"None">>
NoLanguage == "None"      \* a language that is None
ErrMsg(m) == <<m>>
Pair(f, e) == [formatted |-> f, error |-> e]
NoContent == ErrMsg("No content to format")

\* variant: "if not content", which lets whitespace through
IsEmptyContent(content) == content = <<>>

\* "if not content.strip()": the guard at the head of every formatter
IsBlankContent(content) == Strip(content) = <<>>

\* variant: a handler that swallows the message
ExceptResultNone(msg) == Pair(None, None)

\* "except Exception as e: return None, str(e)"
ExceptResult(msg) == Pair(None, ErrMsg(msg))

\* Python truthiness of a member of the pair
Truthy(x) == x # None /\ x # <<>> /\ x # <<"">>

PyIndentSize == 4   \* indent_size of format_python
JsIndentSize == 2   \* indent_size of format_javascript

\* ------------------------------------------------- Formatters.format_python
PyDedentFirst == {<<"e", "l", "i", "f", " ">>, <<"e", "l", "s", "e", ":">>, <<"e", "x", "c", "e", "p", "t">>, <<"f", "i", "n", "a", "l", "l", "y", ":">>, <<"e", "x", "c", "e", "p", "t", " ">>}
PyDedentAfter == {<<"r", "e", "t", "u", "r", "n", " ">>, <<"b", "r", "e", "a", "k">>, <<"c", "o", "n", "t", "i", "n", "u", "e">>, <<"p", "a", "s", "s">>, <<"r", "a", "i", "s", "e", " ">>}

StartsWithAny(s, prefixes) == \E p \in prefixes : StartsWith(s, p)
EndsWithAny(s, suffixes) == \E p \in suffixes : EndsWith(s, p)

\* the loop over the lines, carrying indent_level
RECURSIVE PyLines(_, _)
PyLines(lines, indent_level) ==
    IF lines = <<>> THEN <<>>
    ELSE LET stripped == LStrip(lines[1]) IN
         IF stripped = <<>> THEN <<(<<>>)>> \o PyLines(Tail(lines), indent_level)
         ELSE LET lvl == IF StartsWithAny(stripped, PyDedentFirst)
                         THEN Max(0, indent_level - 1) ELSE indent_level
                  after == IF EndsWith(stripped, <<":">>) THEN lvl + 1
                           ELSE IF StartsWithAny(stripped, PyDedentAfter)
                                THEN Max(0, lvl - 1) ELSE lvl
              IN  <<Spaces(lvl * PyIndentSize) \o stripped>>
                  \o PyLines(Tail(lines), after)

\* variant: a formatter that ends its output with a line break
format_pythonNewline(content) ==
    IF IsBlankContent(content) THEN Pair(None, NoContent)
    ELSE Pair(Join(PyLines(Split(content, "\n"), 0), "\n") \o <<"\n">>, None)

format_python(content) ==
    IF IsBlankContent(content) THEN Pair(None, NoContent)
    ELSE Pair(Join(PyLines(Split(content, "\n"), 0), "\n"), None)

\* --------------------------------------------- Formatters.format_javascript
RECURSIVE JsLines(_, _)
JsLines(lines, indent_level) ==
    IF lines = <<>> THEN <<>>
    ELSE LET stripped == LStrip(lines[1]) IN
         IF stripped = <<>> THEN <<(<<>>)>> \o JsLines(Tail(lines), indent_level)
         ELSE LET lvl == IF StartsWithAny(stripped, {<<"}">>, <<"]">>})
                         THEN Max(0, indent_level - 1) ELSE indent_level
                  after == IF EndsWithAny(stripped, {<<"{">>, <<"[">>})
                           THEN lvl + 1 ELSE lvl
              IN  <<Spaces(lvl * JsIndentSize) \o stripped>>
                  \o JsLines(Tail(lines), after)

\* variant: the first line is already one level deep
format_javascriptDeep(content) ==
    IF IsBlankContent(content) THEN Pair(None, NoContent)
    ELSE Pair(Join(JsLines(Split(content, "\n"), 1), "\n"), None)

format_javascript(content) ==
    IF IsBlankContent(content) THEN Pair(None, NoContent)
    ELSE Pair(Join(JsLines(Split(content, "\n"), 0), "\n"), None)

\* ---------------------------------------------------- Formatters.format_css
\* the character scan: st = [formatted, indent_level, in_rule]
CssStep(st, char) ==
    CASE char = "{" ->
           [formatted |-> st.formatted \o <<" ", "{", "\n">>
                          \o Spaces((st.indent_level + 1) * 2),
            indent_level |-> st.indent_level + 1,
            in_rule |-> TRUE]
      [] char = "}" ->
           LET lvl == Max(0, st.indent_level - 1)
           IN  [formatted |-> st.formatted \o <<"\n">> \o Spaces(lvl * 2) \o <<"}">>,
                indent_level |-> lvl,
                in_rule |-> FALSE]
      [] char = ";" ->
           [st EXCEPT !.formatted =
                st.formatted \o <<";", "\n">>
                \o (IF st.in_rule THEN Spaces(st.indent_level * 2) ELSE <<>>)]
      [] char = "\n" ->
           IF st.formatted # <<>> /\ st.formatted[Len(st.formatted)] # "\n"
           THEN [st EXCEPT !.formatted = st.formatted \o <<" ">>]
           ELSE st
      [] OTHER -> [st EXCEPT !.formatted = st.formatted \o <<char>>]

RECURSIVE CssScan(_, _, _)
CssScan(content, k, st) ==
    IF k > Len(content) THEN st
    ELSE CssScan(content, k + 1, CssStep(st, content[k]))

\* the clean-up loop over the lines of the scan's output
RECURSIVE CssClean(_, _)
CssClean(lines, cleaned_lines) ==
    IF lines = <<>> THEN cleaned_lines
    ELSE LET cleaned == RStrip(lines[1])
             keep == \/ cleaned # <<>>
                     \/ /\ cleaned_lines # <<>>
                        /\ Strip(cleaned_lines[Len(cleaned_lines)]) # <<>>
         IN  CssClean(Tail(lines),
                      IF keep THEN Append(cleaned_lines, cleaned) ELSE cleaned_lines)

format_css(content) ==
    IF IsBlankContent(content) THEN Pair(None, NoContent)
    ELSE LET st == CssScan(content, 1,
                           [formatted |-> <<>>, indent_level |-> 0, in_rule |-> FALSE])
         IN  Pair(Join(CssClean(Split(st.formatted, "\n"), <<>>), "\n"), None)

\* --------------------------------------------------------------- json.loads
\* The decoder of the standard library on the JSON texts built from
\* whitespace, digits, double-quoted strings without escapes, arrays, objects
\* and the literals true, false and null.
JsonWs == {" ", "\t", "\n", "\r"}
Digits == {"0", "1", "2", "3", "4", "5", "6", "7", "8", "9"}

JVal(t, str, items, keys) == [t |-> t, s |-> str, items |-> items, keys |-> keys]
JOk(v, pos) == [ok |-> TRUE, val |-> v, pos |-> pos, err |-> ""]
JFail(msg, pos) == [ok |-> FALSE, val |-> JVal("none", <<>>, <<>>, <<>>),
                    pos |-> pos, err |-> msg]

CharAt(s, pos) == IF pos < Len(s) THEN s[pos + 1] ELSE ""

RECURSIVE SkipWs(_, _)
SkipWs(s, pos) ==
    IF pos < Len(s) /\ s[pos + 1] \in JsonWs THEN SkipWs(s, pos + 1) ELSE pos

RECURSIVE DigitsEnd(_, _)
DigitsEnd(s, pos) ==
    IF pos < Len(s) /\ s[pos + 1] \in Digits THEN DigitsEnd(s, pos + 1) ELSE pos

\* offset of the first quote, backslash or control character from pos, or -1
RECURSIVE StrChunkEnd(_, _)
StrChunkEnd(s, pos) ==
    IF pos >= Len(s) THEN -1
    ELSE IF s[pos + 1] \in {"\"", "\\", "\n", "\t", "\r"} THEN pos
    ELSE StrChunkEnd(s, pos + 1)

\* scanstring, pos just after the opening quote
JParseString(s, pos) ==
    LET e == StrChunkEnd(s, pos) IN
    IF e = -1 THEN JFail("Unterminated string starting at", pos - 1)
    ELSE IF s[e + 1] = "\"" THEN JOk(JVal("str", SubSeq(s, pos + 1, e), <<>>, <<>>), e + 1)
    ELSE IF s[e + 1] = "\\" THEN JFail("Invalid \\escape", e)
    ELSE JFail("Invalid control character at", e)

\* dict[key] = value: a repeated key keeps its first place and takes the new value
ObjPut(obj, key, v) ==
    IF \E k \in 1..Len(obj.keys) : obj.keys[k] = key
    THEN LET k == CHOOSE k \in 1..Len(obj.keys) : obj.keys[k] = key
         IN  [obj EXCEPT !.items[k] = v]
    ELSE [obj EXCEPT !.keys = Append(@, key), !.items = Append(@, v)]

RECURSIVE JParseValue(_, _)
RECURSIVE JArrayItems(_, _, _)
RECURSIVE JObjectMembers(_, _, _)

\* JSONArray, pos just after '['
JParseArray(s, pos) ==
    LET p == SkipWs(s, pos) IN
    IF CharAt(s, p) = "]" THEN JOk(JVal("arr", <<>>, <<>>, <<>>), p + 1)
    ELSE JArrayItems(s, p, <<>>)

JArrayItems(s, pos, items) ==
    LET r == JParseValue(s, pos) IN
    IF ~r.ok THEN r
    ELSE LET p == SkipWs(s, r.pos)
             c == CharAt(s, p)
         IN  IF c = "]" THEN JOk(JVal("arr", <<>>, Append(items, r.val), <<>>), p + 1)
             ELSE IF c = "," THEN JArrayItems(s, SkipWs(s, p + 1), Append(items, r.val))
             ELSE JFail("Expecting ',' delimiter", p)

\* JSONObject, pos just after '{'
JParseObject(s, pos) ==
    LET p == SkipWs(s, pos) IN
    IF CharAt(s, p) = "}" THEN JOk(JVal("obj", <<>>, <<>>, <<>>), p + 1)
    ELSE JObjectMembers(s, p, JVal("obj", <<>>, <<>>, <<>>))

JObjectMembers(s, pos, obj) ==
    IF CharAt(s, pos) # "\""
    THEN JFail("Expecting property name enclosed in double quotes", pos)
    ELSE LET k == JParseString(s, pos + 1) IN
         IF ~k.ok THEN k
         ELSE LET p1 == SkipWs(s, k.pos) IN
              IF CharAt(s, p1) # ":" THEN JFail("Expecting ':' delimiter", p1)
              ELSE LET r == JParseValue(s, SkipWs(s, p1 + 1)) IN
                   IF ~r.ok THEN r
                   ELSE LET p2 == SkipWs(s, r.pos)
                            c == CharAt(s, p2)
                            o2 == ObjPut(obj, k.val.s, r.val)
                        IN  IF c = "}" THEN JOk(o2, p2 + 1)
                            ELSE IF c = "," THEN JObjectMembers(s, SkipWs(s, p2 + 1), o2)
                            ELSE JFail("Expecting ',' delimiter", p2)

\* scan_once
JParseValue(s, pos) ==
    LET c == CharAt(s, pos) IN
    IF c = "\"" THEN JParseString(s, pos + 1)
    ELSE IF c = "{" THEN JParseObject(s, pos + 1)
    ELSE IF c = "[" THEN JParseArray(s, pos + 1)
    ELSE IF StartsWithAt(s, pos, <<"n", "u", "l", "l">>) THEN JOk(JVal("lit", <<"n", "u", "l", "l">>, <<>>, <<>>), pos + 4)
    ELSE IF StartsWithAt(s, pos, <<"t", "r", "u", "e">>) THEN JOk(JVal("lit", <<"t", "r", "u", "e">>, <<>>, <<>>), pos + 4)
    ELSE IF StartsWithAt(s, pos, <<"f", "a", "l", "s", "e">>) THEN JOk(JVal("lit", <<"f", "a", "l", "s", "e">>, <<>>, <<>>), pos + 5)
    ELSE IF c \in Digits
         THEN LET e == IF c = "0" THEN pos + 1 ELSE DigitsEnd(s, pos)
              IN  JOk(JVal("num", SubSeq(s, pos + 1, e), <<>>, <<>>), e)
    ELSE JFail("Expecting value", pos)

\* json.loads: one value between optional whitespace, nothing after it
JsonLoads(s) ==
    LET r == JParseValue(s, SkipWs(s, 0)) IN
    IF ~r.ok THEN r
    ELSE LET e == SkipWs(s, r.pos)
         IN  IF e # Len(s) THEN JFail("Extra data", e) ELSE r

\* ---------------------------------------------------------------- json.dumps
\* json.dumps(data, indent=2, ensure_ascii=False, sort_keys=False)
JsonIndent == 2

RECURSIVE JsonDumpsAt(_, _)
RECURSIVE JsonDumpItems(_, _, _)

JsonDumpsAt(v, level) ==
    CASE v.t = "str" -> <<"\"">> \o v.s \o <<"\"">>
      [] v.t = "arr" ->
           IF v.items = <<>> THEN <<"[", "]">>
           ELSE <<"[", "\n">> \o JsonDumpItems(v, 1, level + 1)
                \o <<"\n">> \o Spaces(level * JsonIndent) \o <<"]">>
      [] v.t = "obj" ->
           IF v.items = <<>> THEN <<"{", "}">>
           ELSE <<"{", "\n">> \o JsonDumpItems(v, 1, level + 1)
                \o <<"\n">> \o Spaces(level * JsonIndent) \o <<"}">>
      [] OTHER -> v.s

\* the members of a container from the k-th on, one per line
JsonDumpItems(v, k, level) ==
    LET one == Spaces(level * JsonIndent)
               \o (IF v.t = "obj" THEN <<"\"">> \o v.keys[k] \o <<"\"", ":", " ">>
                   ELSE <<>>)
               \o JsonDumpsAt(v.items[k], level)
    IN  IF k = Len(v.items) THEN one
        ELSE one \o <<",", "\n">> \o JsonDumpItems(v, k + 1, level)

JsonDumps(v) == JsonDumpsAt(v, 0)

\* --------------------------------------------------- Formatters.format_json
\* the body of format_json once json.loads has returned data or raised
FormatData(data) ==
    IF data.ok THEN Pair(JsonDumps(data.val), None)
    ELSE ExceptResult(data.err)

format_json(content) ==
    IF IsBlankContent(content) THEN Pair(None, NoContent)
    ELSE FormatData(JsonLoads(content))

XmlIndent == 2      \* spaces per level of toprettyxml(indent="  ")

\* ------------------------------------------- xml.dom.minidom.parseString
\* The parser of the standard library on the documents built from an optional
\* XML declaration, elements without attributes, character data and comments
\* (no attributes, entity references, CDATA sections, DOCTYPE or processing
\* instructions other than the declaration).
Letters == {"a", "b", "c", "d", "e", "f", "g", "h", "i", "j", "k", "l", "m", "n", "o", "p", "q", "r", "s", "t", "u", "v", "w", "x", "y", "z", "A", "B", "C", "D", "E", "F", "G", "H", "I", "J", "K", "L", "M", "N", "O", "P", "Q", "R", "S", "T", "U", "V", "W", "X", "Y", "Z"}
NameStart == Letters \cup {"_", ":"}
NameChar == NameStart \cup Digits \cup {".", "-"}
XmlWs == {" ", "\t", "\n", "\r"}


XNode(k, str, kids) == [k |-> k, s |-> str, kids |-> kids]
XOk(node, pos) == [ok |-> TRUE, node |-> node, pos |-> pos, err |-> ""]
XFail(msg) == [ok |-> FALSE, node |-> XNode("none", <<>>, <<>>), pos |-> 0, err |-> msg]

RECURSIVE XSkipWs(_, _)
XSkipWs(s, pos) ==
    IF pos < Len(s) /\ s[pos + 1] \in XmlWs THEN XSkipWs(s, pos + 1) ELSE pos

RECURSIVE NameEnd(_, _)
NameEnd(s, pos) ==
    IF pos < Len(s) /\ s[pos + 1] \in NameChar THEN NameEnd(s, pos + 1) ELSE pos

\* offset of the first occurrence of lit at or after pos, or -1
RECURSIVE IndexOf(_, _, _)
IndexOf(s, lit, pos) ==
    IF pos + Len(lit) > Len(s) THEN -1
    ELSE IF StartsWithAt(s, pos, lit) THEN pos
    ELSE IndexOf(s, lit, pos + 1)

\* a comment, pos at its "<!--"
XParseComment(s, pos) ==
    LET e == IndexOf(s, <<"-", "-">>, pos + 4) IN
    IF e = -1 \/ e + 2 >= Len(s) THEN XFail("unclosed token")
    ELSE IF s[e + 3] # ">" THEN XFail("not well-formed (invalid token)")
    ELSE XOk(XNode("comment", SubSeq(s, pos + 5, e), <<>>), e + 3)

\* a processing instruction, pos at its "<?"; the node holds target and
\* data as writexml prints them
XParsePI(s, pos) ==
    LET ne == NameEnd(s, pos + 2)
        target == SubSeq(s, pos + 3, ne)
        p == XSkipWs(s, ne)
        e == IndexOf(s, <<"?", ">">>, p)
        invalid == XFail("not well-formed (invalid token)")
    IN  IF pos + 2 >= Len(s) THEN XFail("unclosed token")
        ELSE IF s[pos + 3] \notin NameStart \ {":"} THEN invalid
        ELSE IF Contains(target, ":") THEN invalid
        ELSE IF Len(target) = 3 /\ target[1] \in {"x", "X"} /\ target[2] \in {"m", "M"}
                /\ target[3] \in {"l", "L"}
             THEN (IF target = <<"x", "m", "l">>
                   THEN XFail("XML or text declaration not at start of entity")
                   ELSE invalid)
        ELSE IF ne >= Len(s) THEN XFail("unclosed token")
        ELSE IF p = ne /\ s[ne + 1] # "?" THEN invalid
        ELSE IF p = ne /\ ne + 1 >= Len(s) THEN XFail("unclosed token")
        ELSE IF p = ne /\ s[ne + 2] # ">" THEN invalid
        ELSE IF e = -1 THEN XFail("unclosed token")
        ELSE XOk(XNode("pi", target \o <<" ">> \o SubSeq(s, p + 1, e), <<>>), e + 2)

\* Eq ::= S? '=' S?  ; the offset after it, or -1
XEq(s, pos) ==
    LET p == XSkipWs(s, pos) IN
    IF CharAt(s, p) = "=" THEN XSkipWs(s, p + 1) ELSE -1

\* a quoted literal at pos: [ok, val, pos]
XQuoted(s, pos) ==
    LET q == CharAt(s, pos) IN
    IF q \notin {"\"", "'"} THEN [ok |-> FALSE, val |-> <<>>, pos |-> pos]
    ELSE LET e == IndexOf(s, <<q>>, pos + 1) IN
         IF e = -1 THEN [ok |-> FALSE, val |-> <<>>, pos |-> pos]
         ELSE [ok |-> TRUE, val |-> SubSeq(s, pos + 2, e), pos |-> e + 1]

EncNameOk(v) ==
    /\ v # <<>>
    /\ v[1] \in Letters
    /\ \A k \in 1..Len(v) : v[k] \in Letters \cup Digits \cup {".", "_", "-"}

\* the XML declaration at offset 0: the offset after its "?>", or -1
XParseDecl(s) ==
    LET p1 == XSkipWs(s, 5)
        e1 == IF p1 > 5 /\ StartsWithAt(s, p1, <<"v", "e", "r", "s", "i", "o", "n">>)
              THEN XEq(s, p1 + Len(<<"v", "e", "r", "s", "i", "o", "n">>)) ELSE -1
        v == IF e1 = -1 THEN [ok |-> FALSE, val |-> <<>>, pos |-> 0] ELSE XQuoted(s, e1)
    IN  IF ~v.ok \/ v.val # <<"1", ".", "0">> THEN -1
        ELSE LET p2 == XSkipWs(s, v.pos)
                 hasEnc == p2 > v.pos /\ StartsWithAt(s, p2, <<"e", "n", "c", "o", "d", "i", "n", "g">>)
                 e2 == IF hasEnc THEN XEq(s, p2 + Len(<<"e", "n", "c", "o", "d", "i", "n", "g">>)) ELSE -1
                 enc == IF e2 = -1 THEN [ok |-> FALSE, val |-> <<>>, pos |-> 0]
                        ELSE XQuoted(s, e2)
                 p3 == IF hasEnc
                       THEN (IF enc.ok /\ EncNameOk(enc.val) THEN XSkipWs(s, enc.pos) ELSE -1)
                       ELSE p2
             IN  IF p3 # -1 /\ StartsWithAt(s, p3, <<"?", ">">>) THEN p3 + 2 ELSE -1

RECURSIVE XParseElement(_, _)
RECURSIVE XParseContent(_, _, _, _, _)

FlushText(kids, text) ==
    IF text = <<>> THEN kids ELSE Append(kids, XNode("text", text, <<>>))

\* an element, pos at its '<' followed by a name start character
XParseElement(s, pos) ==
    LET ne == NameEnd(s, pos + 1)
        name == SubSeq(s, pos + 2, ne)
        p == XSkipWs(s, ne)
        c == CharAt(s, p)
    IN  IF p >= Len(s) THEN XFail("unclosed token")
        ELSE IF c = "/"
             THEN IF p + 1 >= Len(s) THEN XFail("unclosed token")
                  ELSE IF s[p + 2] # ">" THEN XFail("not well-formed (invalid token)")
                  ELSE IF Contains(name, ":") THEN XFail("unbound prefix")
                  ELSE XOk(XNode("elem", name, <<>>), p + 2)
        ELSE IF c = ">"
             THEN IF Contains(name, ":") THEN XFail("unbound prefix")
                  ELSE XParseContent(s, p + 1, name, <<>>, <<>>)
        ELSE XFail("not well-formed (invalid token)")

\* the content of the element called name up to and including its end tag
XParseContent(s, pos, name, kids, text) ==
    IF pos >= Len(s) THEN XFail("no element found")
    ELSE LET c == s[pos + 1] IN
    IF c = "<"
    THEN LET d == CharAt(s, pos + 1) IN
         IF pos + 1 >= Len(s) THEN XFail("unclosed token")
         ELSE IF d = "/"
         THEN LET ne == NameEnd(s, pos + 2)
                  p == XSkipWs(s, ne)
              IN  IF pos + 2 >= Len(s) THEN XFail("unclosed token")
                  ELSE IF s[pos + 3] \notin NameStart
                       THEN XFail("not well-formed (invalid token)")
                  ELSE IF p >= Len(s) THEN XFail("unclosed token")
                  ELSE IF s[p + 1] # ">" THEN XFail("not well-formed (invalid token)")
                  ELSE IF SubSeq(s, pos + 3, ne) # name THEN XFail("mismatched tag")
                  ELSE XOk(XNode("elem", name, FlushText(kids, text)), p + 1)
         ELSE IF d \in NameStart
         THEN LET r == XParseElement(s, pos) IN
              IF ~r.ok THEN r
              ELSE XParseContent(s, r.pos, name,
                                 Append(FlushText(kids, text), r.node), <<>>)
         ELSE IF StartsWithAt(s, pos, <<"<", "!", "-", "-">>)
         THEN LET r == XParseComment(s, pos) IN
              IF ~r.ok THEN r
              ELSE XParseContent(s, r.pos, name,
                                 Append(FlushText(kids, text), r.node), <<>>)
         ELSE IF d = "!" /\ pos + 4 > Len(s) /\ StartsWith(<<"<", "!", "-", "-">>, SubSeq(s, pos + 1, Len(s)))
         THEN XFail("unclosed token")
         ELSE IF d = "?"
         THEN LET r == XParsePI(s, pos) IN
              IF ~r.ok THEN r
              ELSE XParseContent(s, r.pos, name,
                                 Append(FlushText(kids, text), r.node), <<>>)
         ELSE XFail("not well-formed (invalid token)")
    ELSE IF c = "&" \/ StartsWithAt(s, pos, <<"]", "]", ">">>)
    THEN XFail("not well-formed (invalid token)")
    ELSE XParseContent(s, pos + 1, name, kids, Append(text, c))

\* characters that are no token of the prolog or epilog
PrologInvalid == {"/", "!", "{", "}", ";", "\\", "=", "?", "&", "$", "@", "^", "~"}

\* prolog and epilog: comments and white space around the root element.  The
\* message of an ExpatError is carried as its fault class, without the line
\* and column.
RECURSIVE XParseMisc(_, _, _, _)
XParseMisc(s, pos, kids, seenRoot) ==
    LET p == XSkipWs(s, pos)
        c == CharAt(s, p)
        d == CharAt(s, p + 1)
        junk == XFail("junk after document element")
    IN  IF p >= Len(s)
        THEN IF seenRoot THEN XOk(XNode("doc", <<>>, kids), p)
             ELSE XFail("no element found")
        ELSE IF c # "<"
             THEN (IF c \in PrologInvalid THEN XFail("not well-formed (invalid token)")
                   ELSE IF seenRoot THEN junk ELSE XFail("syntax error"))
        ELSE IF p + 1 >= Len(s) THEN XFail("unclosed token")
        ELSE IF StartsWithAt(s, p, <<"<", "!", "-", "-">>)
        THEN LET r == XParseComment(s, p) IN
             IF ~r.ok THEN r ELSE XParseMisc(s, r.pos, Append(kids, r.node), seenRoot)
        ELSE IF d = "!" /\ p + 4 > Len(s) /\ StartsWith(<<"<", "!", "-", "-">>, SubSeq(s, p + 1, Len(s)))
        THEN XFail("unclosed token")
        ELSE IF d \in NameStart
        THEN IF seenRoot THEN junk
             ELSE LET r == XParseElement(s, p) IN
                  IF ~r.ok THEN r ELSE XParseMisc(s, r.pos, Append(kids, r.node), TRUE)
        ELSE IF d = "?"
        THEN LET r == XParsePI(s, p) IN
             IF ~r.ok THEN r ELSE XParseMisc(s, r.pos, Append(kids, r.node), seenRoot)
        ELSE XFail("not well-formed (invalid token)")

\* parseString: the document node, or the ExpatError
ParseString(s) ==
    IF StartsWith(s, <<"<", "?", "x", "m", "l">>) /\ CharAt(s, 5) \in XmlWs \cup {"?"}
    THEN LET e == XParseDecl(s) IN
         IF e = -1 THEN XFail("XML declaration not well-formed")
         ELSE XParseMisc(s, e, <<>>, FALSE)
    ELSE XParseMisc(s, 0, <<>>, FALSE)

\* ------------------------------------------------------- Node.toprettyxml
\* _write_data: the characters escaped on output
RECURSIVE WriteData(_)
WriteData(data) ==
    IF data = <<>> THEN <<>>
    ELSE (CASE data[1] = "&" -> <<"&", "a", "m", "p", ";">>
            [] data[1] = "<" -> <<"&", "l", "t", ";">>
            [] data[1] = "\"" -> <<"&", "q", "u", "o", "t", ";">>
            [] data[1] = ">" -> <<"&", "g", "t", ";">>
            [] OTHER -> <<data[1]>>) \o WriteData(Tail(data))

RECURSIVE WriteXml(_, _)
RECURSIVE WriteKids(_, _, _)

\* Element.writexml, Text.writexml, Comment.writexml and
\* ProcessingInstruction.writexml with addindent = 2
\* spaces and newl = "\n"; indent is the number of spaces
WriteXml(node, indent) ==
    CASE node.k = "text" -> WriteData(Spaces(indent) \o node.s \o <<"\n">>)
      [] node.k = "comment" ->
           Spaces(indent) \o <<"<", "!", "-", "-">> \o node.s \o <<"-", "-", ">">> \o <<"\n">>
      [] node.k = "pi" ->
           Spaces(indent) \o <<"<", "?">> \o node.s \o <<"?", ">">> \o <<"\n">>
      [] OTHER ->
           Spaces(indent) \o <<"<">> \o node.s
           \o (IF node.kids = <<>> THEN <<"/", ">", "\n">>
               ELSE <<">">>
                    \o (IF Len(node.kids) = 1 /\ node.kids[1].k = "text"
                        THEN WriteData(node.kids[1].s)
                        ELSE <<"\n">> \o WriteKids(node.kids, 1, indent + XmlIndent)
                             \o Spaces(indent))
                    \o <<"<", "/">> \o node.s \o <<">", "\n">>)

WriteKids(kids, k, indent) ==
    IF k > Len(kids) THEN <<>>
    ELSE WriteXml(kids[k], indent) \o WriteKids(kids, k + 1, indent)

\* Document.toprettyxml(indent="  ")
ToPrettyXml(doc) == <<"<", "?", "x", "m", "l", " ", "v", "e", "r", "s", "i", "o", "n", "=", "\"", "1", ".", "0", "\"", " ", "?", ">">> \o <<"\n">> \o WriteKids(doc.kids, 1, 0)

\* ---------------------------------------------------- Formatters.format_xml
\* the lines of the pretty-printed text that are not blank, right-stripped
RECURSIVE XmlCleanLines(_)
XmlCleanLines(lines) ==
    IF lines = <<>> THEN <<>>
    ELSE LET stripped == RStrip(lines[1])
         IN  (IF stripped # <<>> THEN <<stripped>> ELSE <<>>)
             \o XmlCleanLines(Tail(lines))

IndentOf(line) == Len(line) - Len(LStrip(line))

\* whether the spacing loop puts a blank line before this line
BlankBefore(line, hasPrev, prev_line, prev_indent) ==
    LET indent == IndentOf(line)
        stripped == Strip(line)
        is_closing == StartsWith(stripped, <<"<", "/">>)
        is_comment == StartsWith(stripped, <<"<", "!", "-", "-">>)
        is_opening == StartsWith(stripped, <<"<">>) /\ ~is_closing /\ ~is_comment
        prev == Strip(prev_line)
    IN  /\ hasPrev
        /\ ~is_comment
        /\ is_opening
        /\ IF StartsWith(prev, <<"<", "/">>) THEN indent <= prev_indent
           ELSE IF StartsWith(prev, <<"<">>) /\ ~StartsWith(prev, <<"<", "!", "-", "-">>)
                THEN indent = prev_indent /\ indent > 0
           ELSE FALSE

\* the spacing loop over cleaned_lines from the i-th (1-based) line on
RECURSIVE XmlSpacing(_, _, _, _, _)
XmlSpacing(cleaned_lines, i, hasPrev, prev_line, prev_indent) ==
    IF i > Len(cleaned_lines) THEN <<>>
    ELSE LET line == cleaned_lines[i] IN
         IF StartsWith(line, <<"<", "?", "x", "m", "l">>)
         THEN <<line>> \o (IF i < Len(cleaned_lines) THEN <<(<<>>)>> ELSE <<>>)
              \o XmlSpacing(cleaned_lines, i + 1, hasPrev, prev_line, prev_indent)
         ELSE (IF BlankBefore(line, hasPrev, prev_line, prev_indent)
               THEN <<(<<>>)>> ELSE <<>>)
              \o <<line>>
              \o XmlSpacing(cleaned_lines, i + 1, TRUE, line, IndentOf(line))

\* the declaration line of the input put back as the first line
PreserveDecl(content, formatted) ==
    IF StartsWith(Strip(content), <<"<", "?", "x", "m", "l">>) /\ StartsWith(formatted, <<"<", "?", "x", "m", "l">>)
    THEN LET original_decl == Split(Strip(content), "\n")[1]
             formatted_lines == Split(formatted, "\n")
         IN  Join(<<original_decl>> \o Tail(formatted_lines), "\n")
    ELSE formatted

\* the body of format_xml once parseString has returned dom or raised
FormatDom(content, dom) ==
    IF ~dom.ok THEN ExceptResult(dom.err)
    ELSE LET cleaned_lines == XmlCleanLines(Split(ToPrettyXml(dom.node), "\n"))
             result_lines == XmlSpacing(cleaned_lines, 1, FALSE, <<>>, -1)
         IN  Pair(PreserveDecl(content, Join(result_lines, "\n")), None)

format_xml(content) ==
    IF IsBlankContent(content) THEN Pair(None, NoContent)
    ELSE FormatDom(content, ParseString(content))

\* ------------------------------------------------- utils.detect_language

\* Path(filename).suffix of a file name without directories
RECURSIVE RFind(_, _, _)
RFind(s, c, k) == IF k = 0 THEN 0 ELSE IF s[k] = c THEN k ELSE RFind(s, c, k - 1)

Suffix(name) ==
    LET i == RFind(name, ".", Len(name))
    IN  IF 1 < i /\ i < Len(name) THEN SubSeq(name, i, Len(name)) ELSE <<>>

LowerStr(s) == [k \in 1..Len(s) |-> Lower(s[k])]

detect_language(filename) ==
    IF filename = <<>> THEN "generic"
    ELSE LET ext == LowerStr(Suffix(filename)) IN
         CASE ext = <<".", "x", "m", "l">> -> "xml"
           [] ext = <<".", "h", "t", "m", "l">> -> "html"
           [] ext = <<".", "h", "t", "m">> -> "html"
           [] ext = <<".", "j", "s", "o", "n">> -> "json"
           [] ext = <<".", "p", "y">> -> "python"
           [] ext = <<".", "c", "s", "s">> -> "css"
           [] ext = <<".", "j", "s">> -> "javascript"
           [] ext = <<".", "j", "s", "x">> -> "javascript"
           [] OTHER -> "generic"

\* --------------------------------- utils.detect_file_type_from_content
WordChars == Letters \cup Digits \cup {"_"}

RECURSIVE WordEnd(_, _)
WordEnd(s, pos) ==
    IF pos < Len(s) /\ s[pos + 1] \in WordChars THEN WordEnd(s, pos + 1) ELSE pos

RECURSIVE SpaceEnd(_, _)
SpaceEnd(s, pos) ==
    IF pos < Len(s) /\ IsSpace(s[pos + 1]) THEN SpaceEnd(s, pos + 1) ELSE pos

\* len(re.findall(r'<[^>]+>', content)) counted from offset pos
RECURSIVE TagCount(_, _)
TagCount(s, pos) ==
    IF pos >= Len(s) THEN 0
    ELSE LET q == IndexOf(s, <<">">>, pos + 1) IN
         IF s[pos + 1] = "<" /\ q # -1 /\ q > pos + 1
         THEN 1 + TagCount(s, q + 1)
         ELSE TagCount(s, pos + 1)

\* re.search(r'</\w+>', content)
HasClosingTag(s) ==
    \E p \in 0..(Len(s) - 1) :
        /\ StartsWithAt(s, p, <<"<", "/">>)
        /\ WordEnd(s, p + 2) > p + 2
        /\ CharAt(s, WordEnd(s, p + 2)) = ">"

\* variant: no search for a self-closing tag
HasSelfClosingTagNever(s) == FALSE

\* re.search(r'<\w+[^>]*/>', content)
HasSelfClosingTag(s) ==
    \E p \in 0..(Len(s) - 1) :
        /\ s[p + 1] = "<"
        /\ CharAt(s, p + 1) \in WordChars
        /\ \E q \in (p + 2)..(Len(s) - 2) :
              /\ s[q + 1] = "/"
              /\ s[q + 2] = ">"
              /\ \A j \in (p + 2)..(q - 1) : s[j + 1] # ">"

\* a quoted run "[^"]+" starting at offset p: the offset after it, or -1
QuotedRunEnd(s, p) ==
    LET q == IndexOf(s, <<"\"">>, p + 1) IN
    IF CharAt(s, p) = "\"" /\ q # -1 /\ q > p + 1 THEN q + 1 ELSE -1

\* re.search(r'"[^"]+"\s*:', content)
HasKeyPattern(s) ==
    \E p \in 0..(Len(s) - 1) :
        LET e == QuotedRunEnd(s, p) IN
        e # -1 /\ CharAt(s, SpaceEnd(s, e)) = ":"

\* re.search(r':\s*"[^"]+"', content)
HasValuePattern(s) ==
    \E p \in 0..(Len(s) - 1) :
        s[p + 1] = ":" /\ QuotedRunEnd(s, SpaceEnd(s, p + 1)) # -1

detect_file_type_from_content(content) ==
    LET content_stripped == Strip(content)
        tag_count == TagCount(content, 0)
    IN  IF content_stripped = <<>> THEN NoLanguage
        ELSE IF StartsWith(content_stripped, <<"<", "?", "x", "m", "l">>) THEN "xml"
        ELSE IF tag_count >= 2 /\ (HasClosingTag(content) \/ HasSelfClosingTag(content))
             THEN "xml"
        ELSE IF tag_count >= 3 THEN "xml"
        ELSE IF StartsWith(content_stripped, <<"{">>) \/ StartsWith(content_stripped, <<"[">>)
             THEN IF JsonLoads(content).ok THEN "json"
                  ELSE IF /\ \/ StartsWith(content_stripped, <<"{">>) /\ Contains(content, "}")
                             \/ StartsWith(content_stripped, <<"[">>) /\ Contains(content, "]")
                          /\ HasKeyPattern(content)
                          /\ HasValuePattern(content)
                       THEN "json"
                  ELSE NoLanguage
        ELSE NoLanguage

\* ------------------------------------------------------------------- state
VARIABLES
    text_edit,            \* text_edit.toPlainText(): the document
    cursor,               \* text_edit.textCursor(): [anchor, position]
    current_file,         \* TextEditor.current_file (NoFile = None)
    status_bar,           \* message shown in the status bar
    dialog,               \* message box shown by the last handler (NoDialog = none)
    format_calls,         \* formatter calls made by the last auto_format, in order
    find_visible,         \* FindBar.isVisible()
    find_edit,            \* FindBar.find_edit.text()
    search_text,          \* FindBar.search_text
    match_positions,      \* FindBar.match_positions
    total_matches,        \* FindBar.total_matches
    current_match_index,  \* FindBar.current_match_index
    find_label,           \* FindBar.find_label.text()
    highlighter,          \* TextEditor.highlighter: its language and theme
    current_theme,        \* TextEditor.current_theme
    detect_calls,         \* len(content) of each content handed to the detector by
                          \* the last handler that called it, in order
    fn_in,                \* input of the pure function under test
    fn_out,               \* its result
    open_call             \* the call of open_file_from_path in progress: its
                          \* local variables and the processEvents it stands at

vars == <<text_edit, cursor, current_file, status_bar, dialog, format_calls,
          find_visible, find_edit, search_text, match_positions, total_matches,
          current_match_index, find_label, highlighter, current_theme,
          detect_calls, fn_in, fn_out, open_call>>

editorVars == <<text_edit, cursor, current_file, status_bar, dialog, format_calls>>
findVars == <<find_visible, find_edit, search_text, match_positions,
              total_matches, current_match_index, find_label>>
fnVars == <<fn_in, fn_out, open_call>>
hlVars == <<highlighter, current_theme, detect_calls>>

NoFile == <<>>                      \* current_file = None
\* no call of open_file_from_path is in progress
NoCall == [pc |-> "none", filepath |-> <<>>, content |-> <<>>]
NoHighlighter == [language |-> "None", theme |-> "None"]

\* find_label text: "Find:", "Find: (0)" or "i/n"
Msg(m, a, b) == [msg |-> m, i |-> a, n |-> b]
\* status bar message with the language and the numbers it shows
Status(m, lang, a, b) == [msg |-> m, lang |-> lang, i |-> a, n |-> b]
\* QMessageBox.warning / critical / information; detail is the error shown
Dialog(title, text, lang, detail) ==
    [title |-> title, text |-> text, lang |-> lang, detail |-> detail]
NoDialog == Dialog("none", "", "", None)

\* ------------------------------------------------------------ QTextCursor
HasSelection(cur) == cur.anchor # cur.position
SelectionStart(cur) == Min(cur.anchor, cur.position)
SelectionEnd(cur) == Max(cur.anchor, cur.position)

\* QTextCursor.setPosition(pos, mode) on a document of docLen characters:
\* a position outside 0..docLen is rejected and the cursor is left as it was.
SetPosition(cur, pos, keepAnchor, docLen) ==
    IF pos < 0 \/ pos > docLen THEN cur
    ELSE IF keepAnchor THEN [cur EXCEPT !.position = pos]
    ELSE [anchor |-> pos, position |-> pos]

\* --------------------------------------------------- FindBar.count_matches
\* variant: the query compiled as typed, so that "." stands for any character
ReEscapeRaw(q) == [k \in 1..Len(q) |-> [lit |-> q[k] # ".", ch |-> q[k]]]

\* re.escape: every character of the query becomes a literal of the pattern.
ReEscape(q) == [k \in 1..Len(q) |-> [lit |-> TRUE, ch |-> q[k]]]

\* one pattern item against one character, under re.IGNORECASE
ItemMatches(item, c) ==
    IF item.lit THEN Lower(item.ch) = Lower(c) ELSE c # "\n"

\* the pattern matches the text at 0-based offset pos
MatchAt(pattern, text, pos) ==
    /\ pos + Len(pattern) <= Len(text)
    /\ \A k \in 1..Len(pattern) : ItemMatches(pattern[k], text[pos + k])

\* re.finditer: scan left to right, resume each search at the end of the
\* previous match; the pattern is never empty here.
RECURSIVE FindIterFrom(_, _, _)
FindIterFrom(pattern, text, pos) ==
    IF pos + Len(pattern) > Len(text) THEN <<>>
    ELSE IF MatchAt(pattern, text, pos)
         THEN <<pos>> \o FindIterFrom(pattern, text, pos + Len(pattern))
         ELSE FindIterFrom(pattern, text, pos + 1)

FindIter(pattern, text) == FindIterFrom(pattern, text, 0)

\* variant: count_matches that does not set the current index to the first match
CountMatchesNoIndex(content, query, cmi) ==
    IF content = <<>> \/ query = <<>>
    THEN [match_positions |-> <<>>, total_matches |-> 0,
          current_match_index |-> cmi, find_label |-> Msg("Find:", 0, 0)]
    ELSE LET found == FindIter(ReEscape(query), content)
         IN  [match_positions |-> found, total_matches |-> Len(found),
              current_match_index |-> cmi,
              find_label |-> IF Len(found) > 0 THEN Msg("i/n", cmi, Len(found))
                             ELSE Msg("Find: (0)", 0, 0)]

\* count_matches: the fields it leaves behind, given the current index
CountMatches(content, query, cmi) ==
    IF content = <<>> \/ query = <<>>
    THEN [match_positions |-> <<>>, total_matches |-> 0,
          current_match_index |-> cmi, find_label |-> Msg("Find:", 0, 0)]
    ELSE LET found == FindIter(ReEscape(query), content)
         IN  IF Len(found) > 0
             THEN [match_positions |-> found, total_matches |-> Len(found),
                   current_match_index |-> 1,
                   find_label |-> Msg("i/n", 1, Len(found))]
             ELSE [match_positions |-> found, total_matches |-> 0,
                   current_match_index |-> cmi,
                   find_label |-> Msg("Find: (0)", 0, 0)]

\* ------------------------------------------------- FindBar.on_text_changed
\* variant: the handler that skips the reset when the box is emptied
FindBarOnTextChangedKeep(newText) ==
    /\ find_edit' = newText
    /\ IF newText # search_text
       THEN /\ search_text' = newText
            /\ IF newText # <<>>
               THEN LET r == CountMatches(text_edit, newText, 0)
                    IN  /\ match_positions' = r.match_positions
                        /\ total_matches' = r.total_matches
                        /\ current_match_index' = r.current_match_index
                        /\ find_label' = r.find_label
               ELSE /\ find_label' = Msg("Find:", 0, 0)
                    /\ UNCHANGED <<match_positions, total_matches,
                                   current_match_index>>
       ELSE UNCHANGED <<search_text, match_positions, total_matches,
                        current_match_index, find_label>>

\* the find box now holds newText (find_edit.textChanged)
FindBarOnTextChanged(newText) ==
    /\ find_edit' = newText
    /\ IF newText # search_text
       THEN /\ search_text' = newText
            /\ IF newText # <<>>
               THEN LET r == CountMatches(text_edit, newText, 0)
                    IN  /\ match_positions' = r.match_positions
                        /\ total_matches' = r.total_matches
                        /\ current_match_index' = r.current_match_index
                        /\ find_label' = r.find_label
               ELSE /\ match_positions' = <<>>
                    /\ total_matches' = 0
                    /\ current_match_index' = 0
                    /\ find_label' = Msg("Find:", 0, 0)
       ELSE UNCHANGED <<search_text, match_positions, total_matches,
                        current_match_index, find_label>>

\* the user edits the find box
EditFindBox(q) ==
    /\ find_visible
    /\ q # find_edit
    /\ FindBarOnTextChanged(q)
    /\ dialog' = NoDialog
    /\ UNCHANGED <<text_edit, cursor, current_file, status_bar, format_calls,
                   find_visible, fnVars, hlVars>>

\* ------------------------------------------- TextEditor.show_find_dialog
ShowFindDialogBody ==
    IF find_visible
    THEN /\ find_visible' = FALSE
         /\ UNCHANGED <<find_edit, search_text, match_positions, total_matches,
                        current_match_index, find_label>>
    ELSE /\ find_visible' = TRUE
         /\ FindBarOnTextChanged(<<>>)     \* find_edit.clear()

show_find_dialog ==
    /\ ShowFindDialogBody
    /\ dialog' = NoDialog
    /\ UNCHANGED <<text_edit, cursor, current_file, status_bar, format_calls, fnVars, hlVars>>

\* FindBar.keyPressEvent(Escape) -> hide_find_bar
hide_find_bar ==
    /\ find_visible
    /\ find_visible' = FALSE
    /\ dialog' = NoDialog
    /\ UNCHANGED <<text_edit, cursor, current_file, status_bar, format_calls,
                   find_edit, search_text, match_positions, total_matches,
                   current_match_index, find_label, fnVars, hlVars>>

\* ------------------------------------------------------- FindBar.find_next
\* index (0-based) of the first position greater than pos, or -1 (None)
RECURSIVE NextIndexFrom(_, _, _)
NextIndexFrom(positions, pos, i) ==
    IF i >= Len(positions) THEN -1
    ELSE IF positions[i + 1] > pos THEN i
    ELSE NextIndexFrom(positions, pos, i + 1)

\* variant: the report of no match that also sends the cursor home
FindNextNoMatchHome ==
    /\ find_label' = Msg("Find: (0)", 0, 0)
    /\ status_bar' = Status("Text not found", "", 0, 0)
    /\ cursor' = [anchor |-> 0, position |-> 0]

\* find_next when no match is counted: the report, the cursor is not touched
FindNextNoMatch ==
    /\ find_label' = Msg("Find: (0)", 0, 0)
    /\ status_bar' = Status("Text not found", "", 0, 0)
    /\ UNCHANGED cursor

\* find_next with the text cursor cur on a document of docLen characters:
\* the index of the position it moves to and the cursor it sets
FindNextChoice(positions, st, cur, docLen) ==
    LET current_pos == IF HasSelection(cur)
                       THEN SelectionStart(cur)
                       ELSE cur.position
        found == NextIndexFrom(positions, current_pos, 0)
        next_index == IF found = -1 THEN 0 ELSE found
        match_pos == positions[next_index + 1]
        c1 == SetPosition(cur, match_pos, FALSE, docLen)
        c2 == SetPosition(c1, match_pos + Len(st), TRUE, docLen)
    IN  [next_index |-> next_index, cursor |-> c2]

\* find_next moving to the next of the positions, wrapping to the first
FindNextSelect(positions, st) ==
    LET r == FindNextChoice(positions, st, cursor, Len(text_edit))
    IN  /\ current_match_index' = r.next_index + 1
        /\ cursor' = r.cursor
        /\ find_label' = Msg("i/n", r.next_index + 1, Len(positions))
        /\ status_bar' = Status("Found", "", r.next_index + 1, total_matches')

FindBarFindNext ==
    LET st == find_edit IN
    IF st = <<>>
    THEN /\ find_label' = Msg("Find:", 0, 0)
         /\ UNCHANGED <<cursor, status_bar, search_text, match_positions,
                        total_matches, current_match_index>>
    ELSE
      LET cmi0 == IF st # search_text THEN 0 ELSE current_match_index
          recount == match_positions = <<>>
          r == IF recount
               THEN CountMatches(text_edit, st, cmi0)
               ELSE [match_positions |-> match_positions,
                     total_matches |-> total_matches,
                     current_match_index |-> cmi0,
                     find_label |-> find_label]
      IN
      /\ search_text' = IF recount THEN st ELSE search_text
      /\ match_positions' = r.match_positions
      /\ total_matches' = r.total_matches
      /\ IF r.total_matches = 0
         THEN /\ current_match_index' = r.current_match_index
              /\ FindNextNoMatch
         ELSE FindNextSelect(r.match_positions, st)

\* TextEditor.find_next (F3), and Return pressed in the find box
find_next ==
    /\ IF find_visible
       THEN FindBarFindNext /\ UNCHANGED <<find_visible, find_edit>>
       ELSE ShowFindDialogBody /\ UNCHANGED <<cursor, status_bar>>
    /\ dialog' = NoDialog
    /\ UNCHANGED <<text_edit, current_file, format_calls, fnVars, hlVars>>

\* --------------------------------------------------------- document edits
\* TextEditor.on_text_changed: the status bar shows line, column and size
OnTextChanged == status_bar' = Status("Line", "", 0, 0)

\* a key typed into the document replaces the selection, or is inserted at
\* the cursor
TypeChar(ch) ==
    /\ Len(text_edit) - (SelectionEnd(cursor) - SelectionStart(cursor)) < MaxLen
    /\ LET s == SelectionStart(cursor)
           e == SelectionEnd(cursor)
       IN  /\ text_edit' = SubSeq(text_edit, 1, s) \o <<ch>>
                           \o SubSeq(text_edit, e + 1, Len(text_edit))
           /\ cursor' = [anchor |-> s + 1, position |-> s + 1]
    /\ OnTextChanged
    /\ dialog' = NoDialog
    /\ UNCHANGED <<current_file, format_calls, findVars, fnVars, hlVars>>

\* Backspace removes the selection, or the character before the cursor
Backspace ==
    /\ Len(text_edit) <= MaxLen
    /\ HasSelection(cursor) \/ cursor.position > 0
    /\ LET s == IF HasSelection(cursor) THEN SelectionStart(cursor)
                ELSE cursor.position - 1
           e == IF HasSelection(cursor) THEN SelectionEnd(cursor)
                ELSE cursor.position
       IN  /\ text_edit' = SubSeq(text_edit, 1, s)
                           \o SubSeq(text_edit, e + 1, Len(text_edit))
           /\ cursor' = [anchor |-> s, position |-> s]
    /\ OnTextChanged
    /\ dialog' = NoDialog
    /\ UNCHANGED <<current_file, format_calls, findVars, fnVars, hlVars>>

\* a click or an arrow key places the cursor
MoveCursor(p) ==
    /\ p \in 0..Len(text_edit)
    /\ cursor # [anchor |-> p, position |-> p]
    /\ cursor' = [anchor |-> p, position |-> p]
    /\ dialog' = NoDialog
    /\ UNCHANGED <<text_edit, current_file, status_bar, format_calls, findVars,
                   fnVars, hlVars>>

\* a paste into the empty document
Paste(clip) ==
    /\ text_edit = <<>>
    /\ clip # <<>>
    /\ text_edit' = clip
    /\ cursor' = [anchor |-> Len(clip), position |-> Len(clip)]
    /\ OnTextChanged
    /\ dialog' = NoDialog
    /\ UNCHANGED <<current_file, format_calls, findVars, fnVars, hlVars>>

\* ------------------------------------------------------- SyntaxHighlighter
\* highlighting_rules after setup_highlighting: the pattern and the colour
\* of the first rules each setup function appends (xml and html share one);
\* for python and javascript the first keyword, string, comment and number
\* rules, in the order the setup function appends them
setup_highlighting(language, theme) ==
    CASE language \in {"xml", "html"} ->
         <<[pattern |-> <<"<", "\\", "?", "x", "m", "l", "[", "^", "?", ">", "]", "*", "\\", "?", ">">>,
          color |-> IF theme = "light" THEN "#1976D2" ELSE "#90CAF9"],
           [pattern |-> <<"<", "(", "?", "!", "/", ")", "[", "\\", "w", ":", "]", "+", "(", "?", ":", "\\", "s", "+", "[", "^", ">", "]", "*", ")", "?", "(", "?", "<", "!", "/", ")", ">">>,
          color |-> IF theme = "light" THEN "#7C4DFF" ELSE "#82B1FF"]>>
      [] language = "json" ->
         <<[pattern |-> <<"\"", "(", "[", "^", "\"", "]", "+", ")", "\"", "\\", "s", "*", ":">>,
          color |-> IF theme = "light" THEN "#0451A5" ELSE "#9CDCFE"]>>
      [] language = "python" ->
         <<[pattern |-> <<"\\", "b", "d", "e", "f", "\\", "b">>,
          color |-> IF theme = "light" THEN "#0000FF" ELSE "#569CD6"],
           [pattern |-> <<"\"", "[", "^", "\"", "]", "*", "\"">>,
          color |-> IF theme = "light" THEN "#A31515" ELSE "#CE9178"],
           [pattern |-> <<"#", ".", "*">>,
          color |-> IF theme = "light" THEN "#008000" ELSE "#6A9955"],
           [pattern |-> <<"\\", "b", "\\", "d", "+", "\\", ".", "?", "\\", "d", "*", "\\", "b">>,
          color |-> IF theme = "light" THEN "#098658" ELSE "#B5CEA8"]>>
      [] language = "css" ->
         <<[pattern |-> <<"[", "^", "{", "]", "+", "\\", "{">>,
          color |-> IF theme = "light" THEN "#800000" ELSE "#D7BA7D"]>>
      [] language = "javascript" ->
         <<[pattern |-> <<"\\", "b", "f", "u", "n", "c", "t", "i", "o", "n", "\\", "b">>,
          color |-> IF theme = "light" THEN "#0000FF" ELSE "#569CD6"],
           [pattern |-> <<"\"", "[", "^", "\"", "]", "*", "\"">>,
          color |-> IF theme = "light" THEN "#A31515" ELSE "#CE9178"],
           [pattern |-> <<"\\", "b", "\\", "d", "+", "\\", ".", "?", "\\", "d", "*", "\\", "b">>,
          color |-> IF theme = "light" THEN "#098658" ELSE "#B5CEA8"],
           [pattern |-> <<"/", "/", ".", "*">>,
          color |-> IF theme = "light" THEN "#008000" ELSE "#6A9955"]>>
      [] OTHER ->
         <<[pattern |-> <<"\"", "[", "^", "\"", "]", "*", "\"">>,
          color |-> IF theme = "light" THEN "#A31515" ELSE "#CE9178"]>>

\* QRegExp(pattern).isValid(): the engine has lookahead, (?= and (?!, and
\* no lookbehind; a pattern it cannot parse raises nothing and never matches
QRegExpIsValid(pattern) == IndexOf(pattern, <<"(", "?", "<">>, 0) = -1

\* SyntaxHighlighter(document, language, theme); spans is the theme of the
\* rules the blocks of the document were last highlighted with
SyntaxHighlighter(language, theme) ==
    [language |-> language, theme |-> theme,
     highlighting_rules |-> setup_highlighting(language, theme),
     spans |-> theme]

\* variant: the rules of the new theme are added to the list
set_themeAppend(h, theme) ==
    [h EXCEPT !.theme = theme,
              !.highlighting_rules = h.highlighting_rules \o setup_highlighting(h.language, theme),
              !.spans = theme]

\* SyntaxHighlighter.set_theme: the list is emptied and set up again, then
\* rehighlight()
set_theme(h, theme) ==
    [h EXCEPT !.theme = theme,
              !.highlighting_rules = setup_highlighting(h.language, theme),
              !.spans = theme]

\* the number of characters from offset pos on that are (inside) or are not
\* in chars: a character class under + or *
RECURSIVE RunOf(_, _, _, _)
RunOf(text, pos, chars, inside) ==
    IF pos < Len(text) /\ (text[pos + 1] \in chars) = inside
    THEN 1 + RunOf(text, pos + 1, chars, inside)
    ELSE 0

\* \b at offset i: a word character on exactly one side
AtBoundary(text, i) ==
    (i > 0 /\ text[i] \in WordChars) # (i < Len(text) /\ text[i + 1] \in WordChars)

\* QRegExp matching anchored at offset pos: matchedLength() of the match of
\* pattern that starts there, -1 when there is none
MatchedLength(pattern, text, pos) ==
    LET lit(p) == StartsWithAt(text, pos, p)
        word(p) == IF AtBoundary(text, pos) /\ lit(p) /\ AtBoundary(text, pos + Len(p))
                   THEN Len(p) ELSE -1
        quoted == RunOf(text, pos + 1, {"\""}, FALSE)
        blanks == RunOf(text, pos + quoted + 2, {" ", "\t", "\n", "\r"}, TRUE)
        attrs == RunOf(text, pos + 5, {"?", ">"}, FALSE)
        selector == RunOf(text, pos, {"{"}, FALSE)
        int == RunOf(text, pos, Digits, TRUE)
        frac == RunOf(text, pos + int + 1, Digits, TRUE)
        dot == StartsWithAt(text, pos + int, <<".">>)
    IN  CASE ~QRegExpIsValid(pattern) -> -1
          [] pattern = <<"\\", "b", "d", "e", "f", "\\", "b">> -> word(<<"d", "e", "f">>)
          [] pattern = <<"\\", "b", "f", "u", "n", "c", "t", "i", "o", "n", "\\", "b">> -> word(<<"f", "u", "n", "c", "t", "i", "o", "n">>)
          [] pattern = <<"\"", "[", "^", "\"", "]", "*", "\"">> ->
             IF lit(<<"\"">>) /\ StartsWithAt(text, pos + 1 + quoted, <<"\"">>)
             THEN quoted + 2 ELSE -1
          [] pattern = <<"\"", "(", "[", "^", "\"", "]", "+", ")", "\"", "\\", "s", "*", ":">> ->
             IF lit(<<"\"">>) /\ quoted >= 1 /\ StartsWithAt(text, pos + 1 + quoted, <<"\"">>)
                /\ StartsWithAt(text, pos + quoted + 2 + blanks, <<":">>)
             THEN quoted + blanks + 3 ELSE -1
          [] pattern = <<"<", "\\", "?", "x", "m", "l", "[", "^", "?", ">", "]", "*", "\\", "?", ">">> ->
             IF lit(<<"<", "?", "x", "m", "l">>) /\ StartsWithAt(text, pos + 5 + attrs, <<"?", ">">>)
             THEN attrs + 7 ELSE -1
          [] pattern = <<"[", "^", "{", "]", "+", "\\", "{">> ->
             IF selector >= 1 /\ StartsWithAt(text, pos + selector, <<"{">>)
             THEN selector + 1 ELSE -1
          [] pattern = <<"#", ".", "*">> -> IF lit(<<"#">>) THEN Len(text) - pos ELSE -1
          [] pattern = <<"/", "/", ".", "*">> -> IF lit(<<"/", "/">>) THEN Len(text) - pos ELSE -1
          [] pattern = <<"\\", "b", "\\", "d", "+", "\\", ".", "?", "\\", "d", "*", "\\", "b">> ->
             IF int = 0 \/ ~AtBoundary(text, pos) THEN -1
             ELSE IF dot /\ AtBoundary(text, pos + int + 1 + frac) THEN int + 1 + frac
             ELSE IF dot /\ AtBoundary(text, pos + int + 1) THEN int + 1
             ELSE IF AtBoundary(text, pos + int) THEN int
             ELSE -1
          [] OTHER -> -1

\* QRegExp.indexIn(text, offset): the offset of the first match at or after
\* offset, -1 when there is none
RECURSIVE IndexIn(_, _, _)
IndexIn(pattern, text, offset) ==
    IF offset > Len(text) THEN -1
    ELSE IF MatchedLength(pattern, text, offset) >= 0 THEN offset
    ELSE IndexIn(pattern, text, offset + 1)

\* the while loop of highlightBlock for one rule: the setFormat calls it
\* makes from offset index on, in call order
RECURSIVE RuleSpans(_, _, _)
RuleSpans(rule, text, index) ==
    IF index < 0 THEN <<>>
    ELSE LET length == MatchedLength(rule.pattern, text, index)
         IN  <<[start |-> index, length |-> length, color |-> rule.color]>>
             \o RuleSpans(rule, text, IndexIn(rule.pattern, text, index + length))

\* the for loop of highlightBlock: the setFormat calls of every rule
RECURSIVE BlockSpans(_, _)
BlockSpans(rules, text) ==
    IF rules = <<>> THEN <<>>
    ELSE RuleSpans(rules[1], text, IndexIn(rules[1].pattern, text, 0))
         \o BlockSpans(Tail(rules), text)

\* no format set on a character
NoFormat == "none"

\* QSyntaxHighlighter.setFormat(start, count, format) on the formats of the
\* block's characters
RECURSIVE setFormat(_, _)
setFormat(formats, spans) ==
    IF spans = <<>> THEN formats
    ELSE setFormat([k \in DOMAIN formats |->
                       IF spans[1].start < k /\ k <= spans[1].start + spans[1].length
                       THEN spans[1].color ELSE formats[k]],
                   Tail(spans))

\* variant: the rules are applied from the last one to the first
highlightBlockReversed(h, text) ==
    LET RECURSIVE Rev(_)
        Rev(q) == IF q = <<>> THEN <<>> ELSE Rev(Tail(q)) \o <<q[1]>>
        spans == BlockSpans(Rev(h.highlighting_rules), text)
    IN  [spans |-> spans, formats |-> setFormat([k \in 1..Len(text) |-> NoFormat], spans)]

\* highlightBlock(text): the setFormat calls in call order and the format
\* each character of the block ends with
highlightBlock(h, text) ==
    LET spans == BlockSpans(h.highlighting_rules, text)
    IN  [spans |-> spans, formats |-> setFormat([k \in 1..Len(text) |-> NoFormat], spans)]

\* ------------------------------------ TextEditor.update_syntax_highlighting
HighlightLimit == 500000   \* documents of this many characters are not highlighted
SampleLen == 10000         \* characters of a document shown to the detector on open

\* one element of a text that stands for RunLen letters "x" in a row, so
\* that a document of HighlightLimit characters is a short sequence, and
\* one that stands for SampleLen letters "x" in a row
RunLen == 499998
Run == "x*"
SampleRun == "x+"

\* len(content)
CharCount(content) ==
    Len(content) + (RunLen - 1) * Cardinality({k \in DOMAIN content : content[k] = Run})
                 + (SampleLen - 1) * Cardinality({k \in DOMAIN content : content[k] = SampleRun})

\* s[:n]; a row of letters that is cut leaves its first letters
RECURSIVE Prefix(_, _)
Prefix(s, n) ==
    IF s = <<>> \/ n <= 0 THEN <<>>
    ELSE IF CharCount(<<s[1]>>) <= n
         THEN <<s[1]>> \o Prefix(Tail(s), n - CharCount(<<s[1]>>))
    ELSE IF n = SampleLen THEN <<SampleRun>>
    ELSE [k \in 1..n |-> "x"]

\* "if language == 'generic': ... if detected: language = detected"
LanguageOr(language, detected) ==
    IF language = "generic" /\ detected # NoLanguage THEN detected ELSE language

\* the language the new highlighter is built for
HighlightLanguage(language, content) ==
    LanguageOr(language, detect_file_type_from_content(content))

\* -------------------------------------------------------- TextEditor.new_file
new_file ==
    /\ text_edit' = <<>>
    /\ cursor' = [anchor |-> 0, position |-> 0]
    /\ current_file' = NoFile
    /\ highlighter' = NoHighlighter
    /\ status_bar' = Status("New file created", "", 0, 0)
    /\ dialog' = NoDialog
    /\ UNCHANGED <<format_calls, findVars, fnVars, current_theme, detect_calls>>

\* a Save started from maybe_save fails: the handler stops with an error box
SaveFails ==
    /\ dialog' = Dialog("Error", "Could not save file", "", None)
    /\ UNCHANGED <<text_edit, cursor, current_file, status_bar, format_calls,
                   findVars, fnVars, hlVars>>

\* ---------------------------------------------- TextEditor.open_file_from_path
\* the file filepath holds content
\* the detector is called on the sample when the extension is not known,
\* and by update_syntax_highlighting on the document when the language is
\* still generic
OpenDetectCalls(filepath, content, language, document) ==
    (IF detect_language(filepath) = "generic"
     THEN <<CharCount(Prefix(content, SampleLen))>> ELSE <<>>)
    \o (IF CharCount(content) < HighlightLimit /\ language = "generic"
        THEN <<CharCount(document)>> ELSE <<>>)

\* the file is read: the document, the highlighter and the status message,
\* language being the language by extension or else by the sample
OpenAs(filepath, content, language) ==
    LET char_count == CharCount(content)
        should_highlight == char_count < HighlightLimit
    IN  /\ filepath # <<>>
        /\ current_file' = filepath
        /\ text_edit' = content
        /\ cursor' = [anchor |-> 0, position |-> 0]
        /\ IF should_highlight
           THEN /\ highlighter' = SyntaxHighlighter(HighlightLanguage(language, content),
                                                    current_theme)
                /\ status_bar' = Status("Opened", language, char_count, 0)
           ELSE /\ highlighter' = NoHighlighter
                /\ status_bar' = Status("Opened, highlighting disabled", language,
                                        char_count, 0)
        /\ detect_calls' = OpenDetectCalls(filepath, content, language, content)
        /\ dialog' = NoDialog
        /\ UNCHANGED <<format_calls, findVars, fnVars, current_theme>>

open_file_from_path(filepath, content) ==
    OpenAs(filepath, content,
           LanguageOr(detect_language(filepath),
                      detect_file_type_from_content(Prefix(content, SampleLen))))

\* open_file_from_path in the steps between its calls of
\* QApplication.processEvents, which runs the handlers of the pending events
\* the file is read into content; the call stands at the processEvents that
\* follows
OpenRead(filepath, content) ==
    /\ open_call = NoCall
    /\ filepath # <<>>
    /\ open_call' = [pc |-> "read", filepath |-> filepath, content |-> content]
    /\ UNCHANGED <<editorVars, findVars, hlVars, fn_in, fn_out>>

\* current_file and the document are set; the call stands at the next
\* processEvents
OpenSetContent ==
    /\ open_call.pc = "read"
    /\ current_file' = open_call.filepath
    /\ text_edit' = open_call.content
    /\ cursor' = [anchor |-> 0, position |-> 0]
    /\ OnTextChanged
    /\ open_call' = [open_call EXCEPT !.pc = "set"]
    /\ UNCHANGED <<dialog, format_calls, findVars, hlVars, fn_in, fn_out>>

\* the highlighter and the status message, language being the language by
\* extension or else by the sample of content; the call returns
OpenFinishAs(language) ==
    /\ open_call.pc = "set"
    /\ IF CharCount(open_call.content) < HighlightLimit
       THEN /\ highlighter' = SyntaxHighlighter(HighlightLanguage(language, text_edit),
                                                current_theme)
            /\ status_bar' = Status("Opened", language, CharCount(open_call.content), 0)
       ELSE /\ highlighter' = NoHighlighter
            /\ status_bar' = Status("Opened, highlighting disabled", language,
                                    CharCount(open_call.content), 0)
    /\ detect_calls' = OpenDetectCalls(open_call.filepath, open_call.content,
                                       language, text_edit)
    /\ open_call' = NoCall
    /\ UNCHANGED <<text_edit, cursor, current_file, dialog, format_calls, findVars,
                   fn_in, fn_out, current_theme>>

OpenFinish ==
    OpenFinishAs(LanguageOr(detect_language(open_call.filepath),
                            detect_file_type_from_content(Prefix(open_call.content, SampleLen))))

\* ------------------------------------------------- TextEditor.save_as_file
\* the user picks filename in the dialog and the file is written
save_as_file(filename) ==
    /\ filename # <<>>
    /\ current_file' = filename
    /\ highlighter' = SyntaxHighlighter(HighlightLanguage(detect_language(filename), text_edit),
                                        current_theme)
    /\ detect_calls' = IF detect_language(filename) = "generic"
                       THEN <<CharCount(text_edit)>> ELSE <<>>
    /\ status_bar' = Status("Saved", "", 0, 0)
    /\ dialog' = NoDialog
    /\ UNCHANGED <<text_edit, cursor, format_calls, findVars, fnVars, current_theme>>

\* ------------------------------------------------- TextEditor.change_theme
change_theme(theme) ==
    /\ current_theme' = theme
    /\ highlighter' = IF highlighter # NoHighlighter
                      THEN set_theme(highlighter, theme)
                      ELSE highlighter
    /\ dialog' = NoDialog
    /\ UNCHANGED <<text_edit, cursor, current_file, status_bar, format_calls,
                   findVars, fnVars, detect_calls>>

\* the path does not name a readable file
OpenFails ==
    /\ dialog' = Dialog("Error", "Could not open file", "", None)
    /\ UNCHANGED <<text_edit, cursor, current_file, status_bar, format_calls,
                   findVars, fnVars, hlVars>>

\* ------------------------------------------------------ TextEditor.auto_format
UpperName(language) ==
    CASE language = "xml" -> "XML"
      [] language = "html" -> "HTML"
      [] language = "json" -> "JSON"
      [] language = "python" -> "PYTHON"
      [] language = "css" -> "CSS"
      [] language = "javascript" -> "JAVASCRIPT"
      [] OTHER -> language

\* text_edit.setPlainText(formatted) followed by the status message
SetFormatted(formatted, lang) ==
    /\ text_edit' = formatted
    /\ cursor' = [anchor |-> 0, position |-> 0]
    /\ status_bar' = Status("formatted successfully", lang, 0, 0)
    /\ dialog' = NoDialog

\* the language auto_format settles on: by extension, else by content
FormatLanguage ==
    IF current_file # NoFile THEN detect_language(current_file)
    ELSE detect_file_type_from_content(text_edit)

\* variant: html without a branch of its own
FormatterOfSame(language) == language

\* the formatter called for a known language
FormatterOf(language) ==
    CASE language \in {"xml", "html"} -> "xml"
      [] OTHER -> language

RunFormatter(name, content) ==
    CASE name = "xml" -> format_xml(content)
      [] name = "json" -> format_json(content)
      [] name = "python" -> format_python(content)
      [] name = "css" -> format_css(content)
      [] OTHER -> format_javascript(content)

\* variant: the error branch that also clears the document
FormatFailedClears(language, r) ==
    /\ dialog' = IF Truthy(r.error)
                 THEN Dialog("Error", "Could not format", UpperName(language), r.error)
                 ELSE NoDialog
    /\ text_edit' = <<>>
    /\ cursor' = [anchor |-> 0, position |-> 0]
    /\ UNCHANGED status_bar

\* "elif error:" the error box; the document is not touched
FormatFailed(language, r) ==
    /\ dialog' = IF Truthy(r.error)
                 THEN Dialog("Error", "Could not format", UpperName(language), r.error)
                 ELSE NoDialog
    /\ UNCHANGED <<text_edit, cursor, status_bar>>

\* "if formatted: ... elif error: ..." on the pair r the formatter returned
ApplyFormatting(language, r) ==
    IF Truthy(r.formatted)
    THEN SetFormatted(r.formatted, UpperName(language))
    ELSE FormatFailed(language, r)

\* the branch for a language with a formatter of its own
FormatKnown(language) ==
    /\ format_calls' = <<FormatterOf(language)>>
    /\ ApplyFormatting(language, RunFormatter(FormatterOf(language), text_edit))

\* the branch for no known language: XML first, then JSON; rx and rj are
\* what format_xml and format_json return on the content
TryXmlThenJson(content, rx, rj) ==
    LET tryXml == Contains(content, "<") /\ Contains(content, ">")
        xmlDone == tryXml /\ Truthy(rx.formatted)
        tryJson == ~xmlDone /\ (Contains(content, "{") \/ Contains(content, "["))
        jsonDone == tryJson /\ Truthy(rj.formatted)
    IN  /\ format_calls' = (IF tryXml THEN <<"xml">> ELSE <<>>)
                           \o (IF tryJson THEN <<"json">> ELSE <<>>)
        /\ IF xmlDone THEN SetFormatted(rx.formatted, "XML")
           ELSE IF jsonDone THEN SetFormatted(rj.formatted, "JSON")
           ELSE /\ dialog' = Dialog("Info", "Could not auto-detect file format", "", None)
                /\ UNCHANGED <<text_edit, cursor, status_bar>>

FormatFallback == TryXmlThenJson(text_edit, format_xml(text_edit), format_json(text_edit))

\* the dispatch on the language auto_format has settled on
FormatAs(language) ==
    IF language \in {"xml", "html", "json", "python", "css", "javascript"}
    THEN FormatKnown(language)
    ELSE FormatFallback

auto_format ==
    /\ Len(text_edit) <= MaxFormatLen
    /\ IF IsBlankContent(text_edit)
       THEN /\ dialog' = Dialog("Warning", "No content to format", "", None)
            /\ format_calls' = <<>>
            /\ UNCHANGED <<text_edit, cursor, status_bar>>
       ELSE FormatAs(FormatLanguage)
    /\ detect_calls' = IF ~IsBlankContent(text_edit) /\ current_file = NoFile
                       THEN <<CharCount(text_edit)>> ELSE <<>>
    /\ UNCHANGED <<current_file, findVars, fnVars, highlighter, current_theme>>

\* ------------------------------------------------------------- environment
\* file names the user opens and texts found in files or on the clipboard
FileNames == {<<"a", ".", "x", "m", "l">>,
              <<"a", ".", "H", "T", "M">>,
              <<"a", ".", "j", "s", "o", "n">>,
              <<"a", ".", "p", "y">>,
              <<"a", ".", "c", "s", "s">>,
              <<"a", ".", "j", "s">>,
              <<"a", ".", "t", "x", "t">>,
              <<"a">>}
Texts == {<<"<", "a", ">", "<", "b", "/", ">", "<", "/", "a", ">">>,
          <<"<", "a", "/", ">">>,
          <<"<", "a", ">">>,
          <<"[", "\"", "<", ">", "\"", "]">>,
          <<"{", "\"", "a", "\"", ":", "1", "}">>,
          <<"{", "\"", "a", "\"", ":", "}">>,
          <<"a", ":", "\n", " ", "a">>,
          <<" ", "\n">>,
          <<"a", "{", "a", ";", "}">>,
          <<"<", "a", ">", "[", "<", "/", "a", ">">>}

\* ------------------------------------------------------------ construction
\* fn_out before the call, and after the call of fn
NotCalled == [fn |-> "none", result |-> Pair(None, None)]
Called(fn, result) == [fn |-> fn, result |-> result]

Init ==
    /\ text_edit = <<>>
    /\ cursor = [anchor |-> 0, position |-> 0]
    /\ current_file = NoFile
    /\ status_bar = Status("Ready", "", 0, 0)
    /\ dialog = NoDialog
    /\ format_calls = <<>>
    /\ find_visible = FALSE
    /\ find_edit = <<>>
    /\ search_text = <<>>
    /\ match_positions = <<>>
    /\ total_matches = 0
    /\ current_match_index = 0
    /\ find_label = Msg("Find:", 0, 0)
    /\ highlighter = NoHighlighter
    /\ current_theme = "dark"
    /\ detect_calls = <<>>
    /\ fn_in = <<>>
    /\ fn_out = NotCalled
    /\ open_call = NoCall

\* files at hand while the find bar is exercised: [name, content]
FindDisk == {[name |-> <<"a", ".", "p", "y">>, content |-> <<" ", "a">>],
             [name |-> <<"a">>, content |-> <<"a", "A">>]}

\* the editor with its find bar
Next ==
    \/ \E ch \in Alphabet : TypeChar(ch)
    \/ Backspace
    \/ \E p \in 0..Len(text_edit) : MoveCursor(p)
    \/ show_find_dialog
    \/ hide_find_bar
    \/ \E q \in StrUpTo(QueryAlphabet, MaxQuery) : EditFindBox(q)
    \/ find_next
    \/ new_file
    \/ \E f \in FindDisk : open_file_from_path(f.name, f.content)
    \/ auto_format

Spec == Init /\ [][Next]_vars

\* the editor opening, pasting and formatting documents, find bar closed
NextFormat ==
    \/ new_file
    \/ SaveFails
    \/ \E f \in FileNames, t \in Texts : open_file_from_path(f, t)
    \/ OpenFails
    \/ \E t \in Texts : Paste(t)
    \/ auto_format

SpecFormat == Init /\ [][NextFormat]_vars

\* ------------------------------------------ FindBar.count_matches on its own
\* count_matches is entered with the query stored and the session reset
\* (on_text_changed), over any document
InitCount ==
    /\ text_edit \in StrUpTo(SearchAlphabet, MaxDocLen)
    /\ search_text \in StrUpTo(SearchAlphabet, MaxPatLen) \ {<<>>}
    /\ find_edit = search_text
    /\ find_visible = TRUE
    /\ cursor = [anchor |-> 0, position |-> 0]
    /\ current_file = NoFile
    /\ status_bar = Status("Ready", "", 0, 0)
    /\ dialog = NoDialog
    /\ format_calls = <<>>
    /\ match_positions = <<>>
    /\ total_matches = 0
    /\ current_match_index = 0
    /\ find_label = Msg("Find:", 0, 0)
    /\ highlighter = NoHighlighter
    /\ current_theme = "dark"
    /\ detect_calls = <<>>
    /\ fn_in = <<>>
    /\ fn_out = NotCalled
    /\ open_call = NoCall

count_matches ==
    /\ fn_out = NotCalled
    /\ LET r == CountMatches(text_edit, search_text, current_match_index)
       IN  /\ match_positions' = r.match_positions
           /\ total_matches' = r.total_matches
           /\ current_match_index' = r.current_match_index
           /\ find_label' = r.find_label
    /\ fn_out' = Called("count_matches", Pair(None, None))
    /\ UNCHANGED <<editorVars, find_visible, find_edit, search_text, fn_in, open_call, hlVars>>

NextCount == count_matches

SpecCount == InitCount /\ [][NextCount]_vars

\* ------------------------------------------------ the formatters on their own
FormatAlphabet == {" ", "\n", "a", ":", "{", "}", ";", "<", ">", "[", "]", "1", "/"}

\* longer contents: documents with a declaration, markup and objects that
\* are not well formed, plain text, indented blocks, a style rule
FormatTexts == {<<"[", "\n", "a", ";", "\n", "]">>,
                <<"a", ":", " ", "\n", "a">>,
                <<"{", "\"", "a", "\"", ":", " ", "1", "}">>,
                <<"p", "l", "a", "i", "n", " ", "t", "e", "x", "t", ",", " ", "n", "o", " ", "m", "a", "r", "k", "u", "p">>,
                <<"{", "\"", "a", "\"", ":", "\"", "a", "\"", ",", "}">>,
                <<"<", "a", ">", "<", "a", ">", "<", "a", ">">>,
                <<"<", "a", ">", "<", "a", ">">>,
                <<"<", "a", ">", "<", "b", "/", ">">>,
                <<"<", "?", "x", "m", "l", " ", "v", "e", "r", "s", "i", "o", "n", "=", "\"", "1", ".", "0", "\"", "?", ">", "<", "a", "/", ">">>,
                <<"<", "?", "x", "m", "l", " ", "v", "e", "r", "s", "i", "o", "n", "=", "\"", "1", ".", "0", "\"", "?", ">", "\n", "<", "a", "/", ">">>,
                <<"a", ":", "\n", "p", "a", "s", "s", "\n", " ", "a">>,
                <<"{", "\n", "a", "\n", "}">>,
                <<"a", "{", "c", "o", "l", "o", "r", ":", "r", "e", "d", ";", "}">>,
                <<"<", "a", ">", "<", "b", "/", ">", "<", "b", "/", ">", "<", "/", "a", ">">>,
                <<"<", "a", ">", "<", "b", ">", "<", "c", "/", ">", "<", "/", "b", ">", "<", "!", "-", "-", "c", "-", "-", ">", "<", "b", "/", ">", "<", "/", "a", ">">>,
                <<"<", "?", "p", "?", ">", "<", "a", "/", ">">>,
                <<"a", "{", "b", "{", "}", "c", ";", "d", "}">>,
                <<"\t", "\n", "a">>,
                <<"a", ":", "\n", " ", "\n", "a">>}

\* contents handed to a formatter
FormatInputs == Texts \cup FormatTexts \cup StrUpTo(FormatAlphabet, MaxInputLen)

InitFormatters ==
    /\ fn_in \in FormatInputs
    /\ fn_out = NotCalled
    /\ open_call = NoCall
    /\ text_edit = <<>>
    /\ cursor = [anchor |-> 0, position |-> 0]
    /\ current_file = NoFile
    /\ status_bar = Status("Ready", "", 0, 0)
    /\ dialog = NoDialog
    /\ format_calls = <<>>
    /\ find_visible = FALSE
    /\ find_edit = <<>>
    /\ search_text = <<>>
    /\ match_positions = <<>>
    /\ total_matches = 0
    /\ current_match_index = 0
    /\ find_label = Msg("Find:", 0, 0)
    /\ highlighter = NoHighlighter
    /\ current_theme = "dark"
    /\ detect_calls = <<>>

\* one call of the formatter name on the content fn_in
CallFormatter(name) ==
    /\ fn_out = NotCalled
    /\ fn_out' = Called(name, RunFormatter(name, fn_in))
    /\ UNCHANGED <<editorVars, findVars, hlVars, fn_in, open_call>>

CallFormatXml == CallFormatter("xml")
CallFormatJson == CallFormatter("json")
CallFormatPython == CallFormatter("python")
CallFormatCss == CallFormatter("css")
CallFormatJavascript == CallFormatter("javascript")

\* the formatter that produced fn_out is called again on its own output
Reformat ==
    /\ fn_out # NotCalled
    /\ fn_out.result.formatted # None
    /\ Len(fn_out.result.formatted) <= MaxFormatLen
    /\ fn_in' = fn_out.result.formatted
    /\ fn_out' = Called(fn_out.fn, RunFormatter(fn_out.fn, fn_out.result.formatted))
    /\ UNCHANGED <<editorVars, findVars, hlVars, open_call>>

NextFormatters ==
    \/ Reformat
    \/ CallFormatXml
    \/ CallFormatJson
    \/ CallFormatPython
    \/ CallFormatCss
    \/ CallFormatJavascript

SpecFormatters == InitFormatters /\ [][NextFormatters]_vars

\* ------------------------------------------ the editor and its highlighter
\* files on the disk: one character, and one below and one at HighlightLimit
HighlightDisk ==
    [name : {<<"a", ".", "p", "y">>, <<"a">>},
     content : {<<"a">>, <<Run, "a">>, <<Run, "a", "a">>,
                <<SampleRun, "<", "a", ">", "<", "/", "a", ">">>}]

Themes == {"dark", "light"}

NextHighlight ==
    \/ new_file
    \/ \E f \in HighlightDisk : open_file_from_path(f.name, f.content)
    \/ \E filename \in FileNames : save_as_file(filename)
    \/ \E theme \in Themes : change_theme(theme)
    \/ \E ch \in Alphabet : TypeChar(ch)
    \/ Backspace
    \/ \E t \in Texts : Paste(t)
    \/ auto_format

SpecHighlight == Init /\ [][NextHighlight]_vars

\* ------------------------------ the editor while a file is being opened
NextOpen ==
    \/ \E f \in FindDisk : OpenRead(f.name, f.content)
    \/ OpenSetContent
    \/ OpenFinish
    \/ new_file
    \/ \E theme \in Themes : change_theme(theme)
    \/ \E ch \in Alphabet : TypeChar(ch)
    \/ Backspace
    \/ auto_format

SpecOpen == Init /\ [][NextOpen]_vars

\* -------------------------------------------------- detection on its own
\* one call of detect_file_type_from_content on the sample fn_in
CallDetect ==
    /\ fn_out = NotCalled
    /\ fn_out' = Called("detect", detect_file_type_from_content(fn_in))
    /\ UNCHANGED <<editorVars, findVars, hlVars, fn_in, open_call>>

NextDetect == CallDetect

SpecDetect == InitFormatters /\ [][NextDetect]_vars

\* ------------------------------------------------- highlightBlock, one block
\* the lines of text a block is highlighted for
BlockTexts ==
    {<<"#", "1">>,
     <<"/", "/", "1">>,
     <<"d", "e", "f", " ", "1">>,
     <<"\"", "a", "\"", " ", "1">>,
     <<"1", ".", "5">>,
     <<"1", " ", "1", "a">>,
     <<"#", " ", "d", "e", "f", " ", "\"", "1", "\"">>,
     <<"/", "/", " ", "f", "u", "n", "c", "t", "i", "o", "n", " ", "1">>,
     <<"\"", "a", "\"", ":", " ", "1">>,
     <<"a", "{", "a", "{">>,
     <<"<", "?", "x", "m", "l", "?", ">">>,
     <<"<", "a", ">">>,
     <<"f", "u", "n", "c", "t", "i", "o", "n", " ", "d", "e", "f">>}

\* a highlighter of any language and theme attached, one block to highlight
InitBlock ==
    /\ fn_in \in BlockTexts
    /\ fn_out = NotCalled
    /\ open_call = NoCall
    /\ text_edit = <<>>
    /\ cursor = [anchor |-> 0, position |-> 0]
    /\ current_file = NoFile
    /\ status_bar = Status("Ready", "", 0, 0)
    /\ dialog = NoDialog
    /\ format_calls = <<>>
    /\ find_visible = FALSE
    /\ find_edit = <<>>
    /\ search_text = <<>>
    /\ match_positions = <<>>
    /\ total_matches = 0
    /\ current_match_index = 0
    /\ find_label = Msg("Find:", 0, 0)
    /\ current_theme \in Themes
    /\ highlighter \in {SyntaxHighlighter(language, current_theme) :
                           language \in {"xml", "html", "json", "python", "css", "javascript", "generic"}}
    /\ detect_calls = <<>>

\* the document highlights the block fn_in
CallHighlightBlock ==
    /\ fn_out = NotCalled
    /\ fn_out' = Called("highlightBlock", highlightBlock(highlighter, fn_in))
    /\ UNCHANGED <<editorVars, findVars, hlVars, fn_in, open_call>>

\* set_theme(theme) and the rehighlight() it ends with
SetThemeRehighlight(theme) ==
    LET h == set_theme(highlighter, theme)
    IN  /\ fn_out # NotCalled
        /\ theme # current_theme
        /\ highlighter' = h
        /\ current_theme' = theme
        /\ fn_out' = Called("highlightBlock", highlightBlock(h, fn_in))
        /\ UNCHANGED <<editorVars, findVars, detect_calls, fn_in, open_call>>

NextBlock ==
    \/ CallHighlightBlock
    \/ \E theme \in Themes : SetThemeRehighlight(theme)

SpecBlock == InitBlock /\ [][NextBlock]_vars

\* =================================================================== claims
\* the two characters are the same letter in either case, or the same character
SameLetter(a, b) ==
    \/ a = b
    \/ \E k \in 1..26 : {a, b} = {UpperCase[k], LowerCase[k]}

\* the query occurs in the document at 0-based offset p, read as literal text
\* without regard to case
OccursAt(doc, q, p) ==
    /\ p >= 0
    /\ p + Len(q) <= Len(doc)
    /\ \A j \in 1..Len(q) : SameLetter(doc[p + j], q[j])

\* positions lists the non-overlapping occurrences of q in doc from left to
\* right: ascending without overlap, each an occurrence, and an occurrence
\* that is not listed overlaps a listed one that starts before it
IsOccurrenceList(positions, doc, q) ==
    /\ \A k \in 1..Len(positions) : OccursAt(doc, q, positions[k])
    /\ \A k \in 1..(Len(positions) - 1) : positions[k] + Len(q) <= positions[k + 1]
    /\ \A p \in 0..Len(doc) :
         (OccursAt(doc, q, p) /\ \A k \in 1..Len(positions) : positions[k] # p)
         => \E k \in 1..Len(positions) :
              positions[k] < p /\ p < positions[k] + Len(q)

\* the offset find_next starts from
CursorOffset == IF HasSelection(cursor) THEN SelectionStart(cursor) ELSE cursor.position

\* a step of FindBar.find_next with a query in the box
FindNextStep == find_visible /\ find_edit # <<>> /\ find_next

\* C1: find_next with a non-empty match list and cursor offset c selects the
\* match at the first position greater than c, and when no position is
\* greater than c it wraps and selects the match at the first position: the
\* selection then runs from that position over the length of the query.
C1_FindNextSelectsNextOrWraps ==
    [][(FindNextStep /\ match_positions # <<>>) =>
         LET later == {i \in 1..Len(match_positions) : match_positions[i] > CursorOffset}
             i == IF later = {} THEN 1
                  ELSE CHOOSE m \in later : \A n \in later : m <= n
             p == match_positions[i]
         IN  /\ current_match_index' = i
             /\ cursor' = [anchor |-> p, position |-> p + Len(find_edit)]]_vars

\* C2: at every find_next call with a query in the box, match_positions is
\* the list of occurrences of the query in the document as it is now, never
\* the occurrences in an earlier content.
C2_MatchesFollowDocument ==
    [][FindNextStep => IsOccurrenceList(match_positions', text_edit, find_edit)]_vars

\* C3: count_matches collects exactly the start offsets of the
\* non-overlapping left-to-right occurrences of the query, read as literal
\* text without regard to case, in strictly ascending order, and
\* total_matches is their number.
C3_CountMatchesLiteral ==
    fn_out.fn = "count_matches"
    => /\ IsOccurrenceList(match_positions, text_edit, search_text)
       /\ total_matches = Len(match_positions)

\* C3 case: "." in the query is a full stop, and "a" finds "A"
C3_Witness ==
    /\ fn_out.fn = "count_matches"
    /\ text_edit = <<"a", ".", "A">>
    /\ search_text = <<".", "a">>
    /\ match_positions = <<1>>

\* C4: after every change of the find-box text the session is rebuilt for
\* the new text: a non-empty text leaves exactly the occurrences of the new
\* text in the current document and their number, an empty text leaves no
\* position and a count of 0.
C4_RebuiltOnQueryChange ==
    [][find_edit' # find_edit =>
         /\ search_text' = find_edit'
         /\ total_matches' = Len(match_positions')
         /\ IF find_edit' # <<>>
            THEN IsOccurrenceList(match_positions', text_edit', find_edit')
            ELSE match_positions' = <<>>]_vars

\* C4 case: the box holds a second query whose only match differs from the
\* matches of its one-character prefix
C4_Witness ==
    /\ find_visible
    /\ text_edit = <<"a", "A">>
    /\ find_edit = <<"a", "a">>
    /\ match_positions = <<0>>
    /\ total_matches = 1

\* C5: in every state of the find bar total_matches is the length of
\* match_positions, match_positions is non-empty only if the stored query is
\* non-empty, and the current match index lies in 1..total_matches when
\* matches exist and is 0 when there are none.
C5_SessionConsistent ==
    /\ total_matches = Len(match_positions)
    /\ match_positions # <<>> => search_text # <<>>
    /\ match_positions # <<>> => current_match_index \in 1..total_matches
    /\ match_positions = <<>> => current_match_index = 0

\* C5 case: the second of two matches is the current one
C5_Witness ==
    /\ Len(match_positions) = 2
    /\ current_match_index = 2
    /\ search_text # <<>>

\* C6: when the match list for the query is empty, find_next reports zero
\* matches and leaves the cursor position and the selection as they were.
C6_NoMatchKeepsCursor ==
    [][(FindNextStep /\ match_positions' = <<>>) =>
         /\ cursor' = cursor
         /\ find_label' = Msg("Find: (0)", 0, 0)
         /\ status_bar' = Status("Text not found", "", 0, 0)
         /\ total_matches' = 0]_vars

\* C6 case: no match was reported while the cursor stood inside the document
C6_Witness ==
    /\ find_visible
    /\ find_edit # <<>>
    /\ status_bar = Status("Text not found", "", 0, 0)
    /\ find_label = Msg("Find: (0)", 0, 0)
    /\ cursor.position > 0

\* C7: every call of one of the five formatters returns a pair with exactly
\* one member that is not None.
C7_ExactlyOneMember ==
    fn_out.fn # "none"
    => (fn_out.result.formatted = None) # (fn_out.result.error = None)

\* C7 case: the parser rejected the content and the message came back
C7_Witness ==
    /\ fn_out.fn = "json"
    /\ fn_in = <<"{", "\"", "a", "\"", ":", "}">>
    /\ fn_out.result.formatted = None
    /\ fn_out.result.error # None

\* C8: a content that is empty or holds only whitespace makes each of the
\* five formatters return (None, "No content to format").
C8_BlankIsError ==
    (fn_out.fn # "none" /\ \A k \in 1..Len(fn_in) : fn_in[k] \in {" ", "\n", "\t", "\r"})
    => fn_out.result = Pair(None, ErrMsg("No content to format"))

\* C8 case: the stylesheet formatter was handed a space and a line break
C8_Witness ==
    /\ fn_out.fn = "css"
    /\ fn_in = <<" ", "\n">>
    /\ fn_out.result.formatted = None

\* the formatter name, called on the content, returns a text that counts as one
Succeeds(name, content) ==
    /\ RunFormatter(name, content).formatted # None
    /\ RunFormatter(name, content).formatted # <<>>

\* C9: auto_format leaves the document text as it was when the content is
\* blank, when a message box reports an error or an undetected format, and
\* in every other outcome but a successful format: a new text is the output
\* of a formatter that was called on the old text and succeeded.
C9_TextChangesOnlyOnSuccess ==
    [][auto_format =>
         /\ (\A k \in 1..Len(text_edit) : text_edit[k] \in {" ", "\n", "\t", "\r"})
            => text_edit' = text_edit
         /\ dialog' # NoDialog => text_edit' = text_edit
         /\ text_edit' # text_edit
            => \E k \in 1..Len(format_calls') :
                 /\ Succeeds(format_calls'[k], text_edit)
                 /\ text_edit' = RunFormatter(format_calls'[k], text_edit).formatted]_vars

\* C9 case: the formatter of the file's language failed on a document that
\* is still there
C9_Witness ==
    /\ dialog.title = "Error"
    /\ dialog.text = "Could not format"
    /\ format_calls = <<"json">>
    /\ text_edit = <<"{", "\"", "a", "\"", ":", "}">>

\* the formatter that belongs to a language
FormatterFor(language) ==
    CASE language = "xml" -> "xml"
      [] language = "html" -> "xml"
      [] language = "json" -> "json"
      [] language = "python" -> "python"
      [] language = "css" -> "css"
      [] language = "javascript" -> "javascript"

\* C10: auto_format on a content that is not blank calls exactly the
\* formatter of the known language (the XML formatter for html). With no
\* known language it attempts XML first if the content holds "<" and ">",
\* then JSON if the content holds "{" or "[" and XML was not attempted or
\* failed, and when no attempt succeeds it reports that the format was not
\* detected and leaves the text; XML is never attempted after JSON, an
\* attempt follows only failed attempts, and a new text is the output of the
\* last attempt.
C10_AutoDispatch ==
    [][(auto_format /\ ~IsBlankContent(text_edit)) =>
         LET content == text_edit
             calls == format_calls'
             hasXml == (\E i \in 1..Len(content) : content[i] = "<")
                       /\ (\E i \in 1..Len(content) : content[i] = ">")
             hasJson == \E i \in 1..Len(content) : content[i] \in {"{", "["}
         IN  IF FormatLanguage \in {"xml", "html", "json", "python", "css", "javascript"}
             THEN calls = <<FormatterFor(FormatLanguage)>>
             ELSE /\ calls \in {<<>>, <<"xml">>, <<"json">>, <<"xml", "json">>}
                  /\ hasXml <=> (calls # <<>> /\ calls[1] = "xml")
                  /\ (~hasXml /\ hasJson) => calls = <<"json">>
                  /\ (~hasXml /\ ~hasJson) => calls = <<>>
                  /\ Len(calls) = 2 <=> (hasXml /\ ~Succeeds("xml", content) /\ hasJson)
                  /\ \A k \in 1..(Len(calls) - 1) : ~Succeeds(calls[k], content)
                  /\ (\A k \in 1..Len(calls) : ~Succeeds(calls[k], content))
                     => /\ dialog' = Dialog("Info", "Could not auto-detect file format", "", None)
                        /\ text_edit' = content
                  /\ text_edit' # content
                     => text_edit' = RunFormatter(calls[Len(calls)], content).formatted]_vars

\* C10 case: with no known language the XML attempt failed and the JSON
\* attempt replaced the text
C10_Witness ==
    /\ format_calls = <<"xml", "json">>
    /\ status_bar = Status("formatted successfully", "JSON", 0, 0)
    /\ dialog = NoDialog

\* C11: on every path of auto_format, when the formatters that were invoked
\* all returned an error (so the document is not reformatted), the message
\* box shown to the user carries the error message of one of them.
C11_ParseErrorSurfaced ==
    [][(/\ auto_format
        /\ format_calls' # <<>>
        /\ \A k \in 1..Len(format_calls') :
             RunFormatter(format_calls'[k], text_edit).error # None)
       => \E k \in 1..Len(format_calls') :
            dialog'.detail = RunFormatter(format_calls'[k], text_edit).error]_vars

\* C12: format_python and format_javascript are idempotent: called again on
\* its own successful output, the formatter returns that output unchanged.
C12_PyJsIdempotent ==
    [][(Reformat /\ fn_out.fn \in {"python", "javascript"})
       => fn_out'.result = Pair(fn_out.result.formatted, None)]_vars

\* the re-indented block "a:" / "    a" was formatted a second time
C12_Witness ==
    /\ fn_out.fn = "python"
    /\ fn_in = <<"a", ":", "\n", " ", " ", " ", " ", "a">>
    /\ fn_out.result.formatted = fn_in

\* C13: format_css is idempotent: called again on its own successful output
\* (spacing before the brace and indentation included), it returns that
\* output unchanged.
C13_CssIdempotent ==
    [][(Reformat /\ fn_out.fn = "css")
       => fn_out'.result = Pair(fn_out.result.formatted, None)]_vars

\* the XML declaration a content starts with: its text up to the closing "?>"
DeclarationOf(content) ==
    LET t == Strip(content)
        e == IndexOf(t, <<"?", ">">>, 0)
    IN  IF e < 0 THEN t ELSE SubSeq(t, 1, e + 2)

\* C14: when format_xml succeeds on a content that starts with an XML
\* declaration, whatever follows the declaration on its line, the first
\* line of the output is that declaration and nothing else.
C14_DeclarationPreserved ==
    (/\ fn_out.fn = "xml"
     /\ fn_out.result.formatted # None
     /\ StartsWith(Strip(fn_in), <<"<", "?", "x", "m", "l">>))
    => Split(fn_out.result.formatted, "\n")[1] = DeclarationOf(fn_in)

\* C15: format_css on "a{color:red;}" returns exactly the three lines
\* "a {", "  color: red;" and "}", and no other line.
C15_CssScenario ==
    (fn_out.fn = "css" /\ fn_in = <<"a", "{", "c", "o", "l", "o", "r", ":", "r", "e", "d", ";", "}">>)
    => fn_out.result = Pair(Join(<<<<"a", " ", "{">>,
                                   <<" ", " ", "c", "o", "l", "o", "r", ":", " ", "r", "e", "d", ";">>,
                                   <<"}">>>>, "\n"), None)

\* the decision order of the claim, on a sample
DecisionOrder(sample) ==
    LET trimmed == Strip(sample)
        tags == TagCount(sample, 0)
        brace == StartsWith(trimmed, <<"{">>)
        bracket == StartsWith(trimmed, <<"[">>)
    IN  IF trimmed = <<>> THEN NoLanguage
        ELSE IF StartsWith(trimmed, <<"<", "?", "x", "m", "l">>) THEN "xml"
        ELSE IF \/ tags >= 2 /\ (HasClosingTag(sample) \/ HasSelfClosingTag(sample))
                \/ tags >= 3
             THEN "xml"
        ELSE IF /\ brace \/ bracket
                /\ \/ JsonLoads(sample).ok
                   \/ /\ (brace /\ Contains(sample, "}")) \/ (bracket /\ Contains(sample, "]"))
                      /\ HasKeyPattern(sample)
                      /\ HasValuePattern(sample)
             THEN "json"
        ELSE NoLanguage

\* C16: detect_file_type_from_content decides in this order: xml for a
\* sample whose trimmed text begins with the declaration marker; else xml
\* for at least 2 tag-like substrings with a closing or self-closing tag, or
\* at least 3 tag-like substrings; else json for a trimmed text starting
\* with a brace or bracket that parses strictly or has the matching closer
\* and both a key and a value pattern; else nothing. The four samples of
\* the claim give json, xml, nothing and nothing; of two tags without a
\* closing one, "<a><b/>" has a self-closing tag and "<a><a>" has not.
C16_DetectionOrder ==
    fn_out.fn = "detect"
    => /\ fn_out.result = DecisionOrder(fn_in)
       /\ fn_in = <<"<", "a", ">", "<", "b", "/", ">">> => fn_out.result = "xml"
       /\ fn_in = <<"<", "a", ">", "<", "a", ">">> => fn_out.result = NoLanguage
       /\ fn_in = <<"{", "\"", "a", "\"", ":", " ", "1", "}">> => fn_out.result = "json"
       /\ fn_in = <<"<", "a", ">", "<", "b", "/", ">", "<", "/", "a", ">">> => fn_out.result = "xml"
       /\ fn_in = <<"p", "l", "a", "i", "n", " ", "t", "e", "x", "t", ",", " ", "n", "o", " ", "m", "a", "r", "k", "u", "p">> => fn_out.result = NoLanguage
       /\ fn_in = <<" ", "\n">> => fn_out.result = NoLanguage

\* two tags, one of them self-closing and none closing, were taken for xml
C16_Witness ==
    /\ fn_out.fn = "detect"
    /\ fn_in = <<"<", "a", ">", "<", "b", "/", ">">>
    /\ fn_out.result = "xml"

\* C17: in every reachable state, a document of HighlightLimit characters
\* or more has no highlighter attached, whatever open, edit, Save As,
\* auto-format and theme-change operations came before.
C17_LargeNotHighlighted ==
    CharCount(text_edit) >= HighlightLimit => highlighter = NoHighlighter

\* C18: while a call of open_file_from_path is in progress, no other
\* operation begins: every step taken before the call returns is a step of
\* that call.
C18_OpenNotInterleaved ==
    [][open_call # NoCall => open_call' # open_call]_vars

C20_PatternsValid ==
    highlighter # NoHighlighter
    => \A k \in 1..Len(highlighter.highlighting_rules) :
         QRegExpIsValid(highlighter.highlighting_rules[k].pattern)

\* C21: every content the editor hands to the detector (on open, on Save
\* As, when the highlighter is built, in auto_format) holds at most the
\* first SampleLen characters of the document.
C21_DetectorGetsSample ==
    \A k \in 1..Len(detect_calls) : detect_calls[k] <= SampleLen

\* the re-leveler of the claim: the level after a line goes up when the
\* trimmed line ends with a colon
RECURSIVE ReferenceLeveler(_, _)
ReferenceLeveler(lines, level) ==
    IF lines = <<>> THEN <<>>
    ELSE LET left == LStrip(lines[1]) IN
         IF left = <<>> THEN <<(<<>>)>> \o ReferenceLeveler(Tail(lines), level)
         ELSE LET first == IF \/ StartsWith(left, <<"e", "l", "i", "f", " ">>)
                              \/ StartsWith(left, <<"e", "l", "s", "e", ":">>)
                              \/ StartsWith(left, <<"e", "x", "c", "e", "p", "t">>)
                              \/ StartsWith(left, <<"f", "i", "n", "a", "l", "l", "y", ":">>)
                           THEN Max(0, level - 1) ELSE level
                  after == IF EndsWith(Strip(lines[1]), <<":">>) THEN first + 1
                           ELSE IF \/ StartsWith(left, <<"r", "e", "t", "u", "r", "n", " ">>)
                                   \/ StartsWith(left, <<"b", "r", "e", "a", "k">>)
                                   \/ StartsWith(left, <<"c", "o", "n", "t", "i", "n", "u", "e">>)
                                   \/ StartsWith(left, <<"p", "a", "s", "s">>)
                                   \/ StartsWith(left, <<"r", "a", "i", "s", "e", " ">>)
                                THEN Max(0, first - 1) ELSE first
              IN  <<Spaces(first * 4) \o left>> \o ReferenceLeveler(Tail(lines), after)

\* C22: for every content it formats, lines with trailing whitespace
\* included, format_python returns the lines of the reference re-leveler:
\* level 0 at the start, minus 1 (floor 0) before a line starting with
\* elif, else:, except or finally:, 4 spaces per level, plus 1 after a
\* line whose trimmed text ends with a colon, else minus 1 (floor 0) after
\* return, break, continue, pass or raise.
C22_PythonReference ==
    (fn_out.fn = "python" /\ fn_out.result.formatted # None)
    => fn_out.result.formatted = Join(ReferenceLeveler(Split(fn_in, "\n"), 0), "\n")

\* the re-leveler of the claim with 2 spaces per level: blank lines are
\* emitted empty, a line ending in a semicolon leaves the level alone
RECURSIVE ReferenceBraceLeveler(_, _)
ReferenceBraceLeveler(lines, level) ==
    IF lines = <<>> THEN <<>>
    ELSE LET left == LStrip(lines[1])
             line == lines[1]
         IN  IF left = <<>> THEN <<(<<>>)>> \o ReferenceBraceLeveler(Tail(lines), level)
             ELSE LET first == IF left[1] \in {"}", "]"} THEN Max(0, level - 1) ELSE level
                      after == IF line[Len(line)] \in {"{", "["} THEN first + 1 ELSE first
                  IN  <<Spaces(first * 2) \o left>>
                      \o ReferenceBraceLeveler(Tail(lines), after)

\* C23: for every content it formats, format_javascript returns the lines
\* of the re-leveler with 2 spaces per level: minus 1 (floor 0) before a
\* line starting with a closing brace or bracket, plus 1 after a line
\* ending with an opening brace or bracket, no change after a line ending
\* in a semicolon.
C23_JavascriptReference ==
    (fn_out.fn = "javascript" /\ fn_out.result.formatted # None)
    => fn_out.result.formatted = Join(ReferenceBraceLeveler(Split(fn_in, "\n"), 0), "\n")

\* the line inside the braces was indented by one level
C23_Witness ==
    /\ fn_out.fn = "javascript"
    /\ fn_in = <<"{", "\n", "a", "\n", "}">>
    /\ fn_out.result.formatted = <<"{", "\n", " ", " ", "a", "\n", "}">>

\* the rule of the table rules that made the setFormat call span (the
\* modelled tables give every rule its own colour)
RuleOf(rules, span) == CHOOSE r \in 1..Len(rules) : rules[r].color = span.color

\* C24: highlightBlock applies the rules in table order; for one rule the
\* matches are found left to right without overlap, each search starting
\* where the previous match ended; every span has a positive length and lies
\* within the line; a character ends with the style of the last rule, in
\* table order, that has a span covering it, and is unstyled when none has
C24_TableOrder ==
    fn_out.fn = "highlightBlock" =>
        LET rules == highlighter.highlighting_rules
            spans == fn_out.result.spans
            formats == fn_out.result.formats
            Covers(span, k) == span.start < k /\ k <= span.start + span.length
            \* the offset the search that found spans[i] started at
            From(i) == IF i > 1 /\ spans[i - 1].color = spans[i].color
                       THEN spans[i - 1].start + spans[i - 1].length ELSE 0
            \* the offset the last search of rule r started at
            LastFrom(r) ==
                LET own == {i \in 1..Len(spans) : RuleOf(rules, spans[i]) = r}
                IN  IF own = {} THEN 0
                    ELSE LET i == CHOOSE i \in own : \A j \in own : j <= i
                         IN  spans[i].start + spans[i].length
        IN  /\ \A i \in 1..Len(spans) :
                /\ spans[i].length > 0
                /\ spans[i].start >= From(i)
                /\ spans[i].start + spans[i].length <= Len(fn_in)
                /\ \E r \in 1..Len(rules) : rules[r].color = spans[i].color
                /\ MatchedLength(rules[RuleOf(rules, spans[i])].pattern, fn_in, spans[i].start)
                       = spans[i].length
                /\ \A p \in From(i)..(spans[i].start - 1) :
                       MatchedLength(rules[RuleOf(rules, spans[i])].pattern, fn_in, p) = -1
            /\ \A i \in 1..(Len(spans) - 1) :
                   RuleOf(rules, spans[i]) <= RuleOf(rules, spans[i + 1])
            /\ \A r \in 1..Len(rules) : \A p \in LastFrom(r)..Len(fn_in) :
                   MatchedLength(rules[r].pattern, fn_in, p) = -1
            /\ Len(formats) = Len(fn_in)
            /\ \A k \in 1..Len(fn_in) :
                   LET over == {i \in 1..Len(spans) : Covers(spans[i], k)}
                   IN  IF over = {} THEN formats[k] = NoFormat
                       ELSE \E i \in over :
                               /\ formats[k] = spans[i].color
                               /\ \A j \in over : RuleOf(rules, spans[j]) <= RuleOf(rules, spans[i])

\* C24: a python block "#1" is highlighted: the comment rule spans the line,
\* then the number rule spans the digit, and the digit ends number-styled
C24_Witness ==
    /\ fn_out.fn = "highlightBlock"
    /\ highlighter.language = "python"
    /\ current_theme = "light"
    /\ fn_in = <<"#", "1">>
    /\ fn_out.result.spans = <<[start |-> 0, length |-> 2, color |-> "#008000"],
                               [start |-> 1, length |-> 1, color |-> "#098658"]>>
    /\ fn_out.result.formats = <<"#008000", "#098658">>

\* C25: in the python and in the javascript table the comment rule precedes
\* the numeric rule, and a digit inside a comment ends with the same style in
\* both languages: the style it has in a python comment is the style it has
\* in the javascript comment of the same words
C25_CommentBeforeNumber ==
    highlighter.language \in {"python", "javascript"} =>
        LET rules == highlighter.highlighting_rules
            marker == IF highlighter.language = "python" THEN <<"#">> ELSE <<"/", "/">>
            comment == CHOOSE r \in 1..Len(rules) :
                           rules[r].pattern \in {<<"#", ".", "*">>, <<"/", "/", ".", "*">>}
            number == CHOOSE r \in 1..Len(rules) :
                          rules[r].pattern = <<"\\", "b", "\\", "d", "+", "\\", ".", "?", "\\", "d", "*", "\\", "b">>
        IN  /\ comment < number
            /\ fn_out.fn = "highlightBlock" /\ StartsWith(fn_in, marker) =>
                   \A k \in 1..Len(fn_in) :
                       fn_in[k] \in Digits =>
                           fn_out.result.formats[k]
                               = highlightBlock(SyntaxHighlighter("javascript", current_theme),
                                                <<"/", "/">> \o SubSeq(fn_in, Len(marker) + 1, Len(fn_in))
                                               ).formats[k - Len(marker) + 2]

\* the blank lines the spacing rules put between the lines that are not
\* blank, from the i-th line on: one after the declaration line; one before
\* an opening-tag line that follows a closing tag at no lesser indentation
\* or an opening tag at the same indentation, whatever the depth; none next
\* to a comment line
RECURSIVE ReferenceSpacing(_, _)
ReferenceSpacing(lines, i) ==
    LET decl(x) == StartsWith(x, <<"<", "?", "x", "m", "l">>)
        closing(x) == StartsWith(Strip(x), <<"<", "/">>)
        comment(x) == StartsWith(Strip(x), <<"<", "!", "-", "-">>)
        opening(x) == StartsWith(Strip(x), <<"<">>) /\ ~closing(x) /\ ~comment(x) /\ ~decl(x)
        blank == \/ decl(lines[i - 1])
                 \/ /\ opening(lines[i])
                    /\ \/ closing(lines[i - 1]) /\ IndentOf(lines[i]) <= IndentOf(lines[i - 1])
                       \/ opening(lines[i - 1]) /\ IndentOf(lines[i]) = IndentOf(lines[i - 1])
    IN  IF i > Len(lines) THEN <<>>
        ELSE (IF i > 1 /\ blank THEN <<(<<>>)>> ELSE <<>>)
             \o <<lines[i]>> \o ReferenceSpacing(lines, i + 1)

\* C26: the lines of a format_xml result are its lines that are not blank
\* with exactly the blank lines of the spacing rules between them: one after
\* the declaration, one before an opening-tag line after a closing tag or
\* after an opening tag of the same indentation (depth 0 included), none
\* before or after a comment, and no other
C26_XmlSpacing ==
    fn_out.fn = "xml" /\ fn_out.result.formatted # None =>
        LET result_lines == Split(fn_out.result.formatted, "\n")
            IsLine(x) == x # <<>>
        IN  result_lines = ReferenceSpacing(SelectSeq(result_lines, IsLine), 1)

\* the number of blocks open after the characters of content: every "{"
\* opens one, every "}" closes one if one is open
RECURSIVE OpenBlocks(_)
OpenBlocks(content) ==
    IF content = <<>> THEN 0
    ELSE LET before == OpenBlocks(SubSeq(content, 1, Len(content) - 1))
         IN  CASE content[Len(content)] = "{" -> before + 1
               [] content[Len(content)] = "}" -> IF before > 0 THEN before - 1 ELSE 0
               [] OTHER -> before

\* C27: in the scan of format_css, after every character the in-rule state
\* is true exactly when the indent level is greater than 0, and every ";"
\* read while a block is open, after an inner "}" too, is written as ";", a
\* line break and two spaces for every open block
C27_SemicolonInOpenBlock ==
    fn_out.fn = "css" /\ fn_out.result.formatted # None =>
        \A k \in 1..Len(fn_in) :
            LET before == CssScan(SubSeq(fn_in, 1, k - 1), 1,
                                  [formatted |-> <<>>, indent_level |-> 0, in_rule |-> FALSE])
                after == CssStep(before, fn_in[k])
                open == OpenBlocks(SubSeq(fn_in, 1, k - 1))
            IN  /\ after.in_rule <=> after.indent_level > 0
                /\ fn_in[k] = ";" /\ open > 0 =>
                       after.formatted = before.formatted \o <<";", "\n">> \o Spaces(2 * open)

\* C28: in format_python blank lines pass through unchanged and do not
\* affect the indent level: every input line that is empty or holds only
\* white space is, at the same position of the output, the same characters,
\* and the lines after it are formatted from the level the line was reached at
C28_BlankLinesUnchanged ==
    fn_out.fn = "python" /\ fn_out.result.formatted # None =>
        LET lines == Split(fn_in, "\n")
            formatted_lines == Split(fn_out.result.formatted, "\n")
        IN  /\ Len(formatted_lines) = Len(lines)
            /\ \A k \in 1..Len(lines) :
                   Strip(lines[k]) = <<>> =>
                       /\ formatted_lines[k] = lines[k]
                       /\ \A indent_level \in 0..2 :
                              Tail(PyLines(SubSeq(lines, k, Len(lines)), indent_level))
                                  = PyLines(SubSeq(lines, k + 1, Len(lines)), indent_level)

\* the calls of find_next made one after the other from the text cursor cur,
\* n of them, nothing else happening in between: what each one chooses
RECURSIVE FindNextCalls(_, _)
FindNextCalls(n, cur) ==
    IF n = 0 THEN <<>>
    ELSE LET r == FindNextChoice(match_positions, find_edit, cur, Len(text_edit))
         IN  <<r>> \o FindNextCalls(n - 1, r.cursor)

\* C29: with N >= 1 match positions, N find_next calls in a row, the
\* document, the query and the cursor left alone in between, select N
\* distinct matches: every position once, in ascending order with at most one
\* wrap to the first, each call selecting the match whose 1-based index it
\* displays
C29_CyclingVisitsEveryMatch ==
    (find_visible /\ find_edit # <<>> /\ match_positions # <<>>) =>
        LET N == Len(match_positions)
            calls == FindNextCalls(N, cursor)
        IN  /\ {calls[k].next_index + 1 : k \in 1..N} = 1..N
            /\ \A k \in 1..N :
                   calls[k].cursor
                       = [anchor |-> match_positions[calls[k].next_index + 1],
                          position |-> match_positions[calls[k].next_index + 1] + Len(find_edit)]
            /\ \A k \in 1..(N - 1) :
                   calls[k + 1].next_index = (calls[k].next_index + 1) % N

\* C30: when open_file_from_path has completed for a document below the
\* highlighting threshold, the language of its status-bar message is the
\* language of the highlighter it attached, whatever the file, files of more
\* than SampleLen characters with an unknown extension included
C30_StatusLanguageIsHighlighted ==
    [][\A f \in HighlightDisk :
           open_file_from_path(f.name, f.content) /\ CharCount(f.content) < HighlightLimit
               => status_bar'.lang = highlighter'.language]_vars

====
